---- MODULE Spec2Model ----
(***************************************************************************)
(* Markdown WYSIWYG webview editor (webview/main.ts): the line classifier, *)
(* the document renderer, the line-type transformer, the inline-format     *)
(* toggler and the debounced edit notification, and the host that holds   *)
(* the document (the custom text editor provider), as one state machine.  *)
(*                                                                         *)
(* A string is a sequence of one-character strings (<<"#"," ","a">> is the *)
(* line "# a"); a markdown document is one such string with "\n" between   *)
(* its lines, split and joined as the code does.  Rendered markup is a     *)
(* sequence of tokens: a character, an HTML entity, or a tag.              *)
(***************************************************************************)
EXTENDS Integers, Sequences, FiniteSets, TLC

VARIABLES
    inbox,            \* messages from the host not yet handled by the webview
    surface,          \* editorContainer.children: one rendered block per line
    cursor,           \* the selection start as saveCursorPosition reads it
    isExternalUpdate, \* the flag that makes handleInput return
    lastSentContent,  \* the content last posted to, or received from, the host
    timers,           \* pending setTimeout callbacks of sendEdit
    now,              \* the clock, in ms
    outbox,           \* messages posted to the host with vscode.postMessage
    toc,              \* headings handed to updateToc
    log,              \* history: the handlers that ran and the messages posted
    stored,           \* vscode.getState().cursorPosition
    document,         \* the host: document.getText()
    lastKnownContent, \* the host: the content last sent to, or received from, the webview
    isApplyingEdit,   \* the host: set while an edit of the webview is applied
    applying          \* the host: the workspace.applyEdit calls not yet returned

\* the state of the host (the custom text editor provider)
host == <<document, lastKnownContent, isApplyingEdit, applying>>

vars == <<inbox, surface, cursor, isExternalUpdate, lastSentContent, timers,
          now, outbox, toc, log, stored, host>>

----------------------------------------------------------------------------
(* Strings *)

NL == "\n"

Take(s, n) == SubSeq(s, 1, n)

Drop(s, n) == SubSeq(s, n + 1, Len(s))

StartsWith(s, p) == Len(s) >= Len(p) /\ Take(s, Len(p)) = p

EndsWith(s, p) == Len(s) >= Len(p) /\ Drop(s, Len(s) - Len(p)) = p

Min(S) == CHOOSE x \in S : \A y \in S : x <= y

\* \s of a JavaScript regular expression, as far as the model's alphabet goes
WS == {" ", "\t"}

\* \d
DIGITS == {"0", "1", "2", "3", "4", "5", "6", "7", "8", "9"}

LOWER == {"a", "b", "c", "d", "e", "f", "g", "h", "i", "j", "k", "l", "m",
          "n", "o", "p", "q", "r", "s", "t", "u", "v", "w", "x", "y", "z"}

UPPER == {"A", "B", "C", "D", "E", "F", "G", "H", "I", "J", "K", "L", "M",
          "N", "O", "P", "Q", "R", "S", "T", "U", "V", "W", "X", "Y", "Z"}

\* [a-zA-Z0-9]
ALNUM == LOWER \cup UPPER \cup DIGITS

\* \w
WORD == ALNUM \cup {"_"}

UpperOf ==
    [c \in LOWER |->
        CASE c = "a" -> "A" [] c = "b" -> "B" [] c = "c" -> "C" [] c = "d" -> "D"
          [] c = "e" -> "E" [] c = "f" -> "F" [] c = "g" -> "G" [] c = "h" -> "H"
          [] c = "i" -> "I" [] c = "j" -> "J" [] c = "k" -> "K" [] c = "l" -> "L"
          [] c = "m" -> "M" [] c = "n" -> "N" [] c = "o" -> "O" [] c = "p" -> "P"
          [] c = "q" -> "Q" [] c = "r" -> "R" [] c = "s" -> "S" [] c = "t" -> "T"
          [] c = "u" -> "U" [] c = "v" -> "V" [] c = "w" -> "W" [] c = "x" -> "X"
          [] c = "y" -> "Y" [] c = "z" -> "Z"]

\* String.prototype.toUpperCase
ToUpper(s) == [i \in 1..Len(s) |-> IF s[i] \in LOWER THEN UpperOf[s[i]] ELSE s[i]]

LowerOfChar(c) == IF c \in UPPER THEN CHOOSE l \in LOWER : UpperOf[l] = c ELSE c

\* String.prototype.toLowerCase
ToLower(s) == [i \in 1..Len(s) |-> LowerOfChar(s[i])]

\* the length of the longest prefix of s made of characters of C
RECURSIVE Run(_, _)
Run(s, C) == IF s # <<>> /\ s[1] \in C THEN 1 + Run(Tail(s), C) ELSE 0

\* String.prototype.trim
RECURSIVE TrimEnd(_)
TrimEnd(s) == IF s # <<>> /\ s[Len(s)] \in WS THEN TrimEnd(Take(s, Len(s) - 1)) ELSE s

Trim(s) == TrimEnd(Drop(s, Run(s, WS)))

\* String.prototype.split('\n')
RECURSIVE Split(_)
Split(md) ==
    LET nl == {i \in 1..Len(md) : md[i] = NL} IN
    IF nl = {} THEN <<md>>
    ELSE <<Take(md, Min(nl) - 1)>> \o Split(Drop(md, Min(nl)))

\* Array.prototype.join('\n')
RECURSIVE Join(_)
Join(ls) ==
    IF ls = <<>> THEN <<>>
    ELSE IF Len(ls) = 1 THEN ls[1]
    ELSE ls[1] \o <<NL>> \o Join(Tail(ls))

----------------------------------------------------------------------------
(* Line patterns *)

HASH == "#"
GT == ">"
\* the backtick character, which a TLA+ string cannot hold
TICK == "BACKTICK"

FENCE == <<TICK, TICK, TICK>>

\* [-*+]
LIST_MARKERS == {"-", "*", "+"}

\* [ xX]
BOX_CHARS == {" ", "x", "X"}

\* the characters a horizontal rule is made of
HR_CHARS == {"-", "*", "_"}

\* NOTE|TIP|IMPORTANT|WARNING|CAUTION
ALERT_NAMES == {<<"N", "O", "T", "E">>, <<"T", "I", "P">>,
                <<"I", "M", "P", "O", "R", "T", "A", "N", "T">>,
                <<"W", "A", "R", "N", "I", "N", "G">>,
                <<"C", "A", "U", "T", "I", "O", "N">>}

NoMatch == <<"no match">>

\* /^>\s*\[!(NOTE|TIP|IMPORTANT|WARNING|CAUTION)\]/i, and with toEnd /...\]\s*$/i:
\* the text of group 1, or NoMatch
AlertMatch(line, toEnd) ==
    IF ~StartsWith(line, <<GT>>) THEN NoMatch
    ELSE LET r == Drop(line, 1 + Run(Drop(line, 1), WS))
             hit == {n \in ALERT_NAMES :
                        /\ StartsWith(ToUpper(r), <<"[", "!">> \o n \o <<"]">>)
                        /\ toEnd => Run(Drop(r, Len(n) + 3), WS) = Len(r) - Len(n) - 3}
         IN IF hit = {} THEN NoMatch
            ELSE SubSeq(r, 3, 2 + Len(CHOOSE n \in hit : TRUE))

\* /^#{k}/: the hashes, with nothing asked of what follows them
HeadingPattern_NoSpace(line, k) ==
    /\ Len(line) >= k
    /\ \A i \in 1..k : line[i] = HASH

\* /^#{k}\s/
HeadingPattern(line, k) ==
    /\ Len(line) > k
    /\ \A i \in 1..k : line[i] = HASH
    /\ line[k + 1] \in WS

\* /^(-{3,}|\*{3,}|_{3,})\s*$/
HrPattern(line) ==
    \E c \in HR_CHARS :
        /\ Run(line, {c}) >= 3
        /\ Run(Drop(line, Run(line, {c})), WS) = Len(line) - Run(line, {c})

\* /^[-*+]\s\[[ xX]\]/
TaskPattern(line) ==
    /\ Len(line) >= 5
    /\ line[1] \in LIST_MARKERS
    /\ line[2] \in WS
    /\ line[3] = "["
    /\ line[4] \in BOX_CHARS
    /\ line[5] = "]"

\* /^[-*+]\s/
UlPattern(line) == Len(line) >= 2 /\ line[1] \in LIST_MARKERS /\ line[2] \in WS

\* /^\d+\.\s/
OlPattern(line) ==
    LET d == Run(line, DIGITS) IN
    d >= 1 /\ Len(line) >= d + 2 /\ line[d + 1] = "." /\ line[d + 2] \in WS

\* the pattern of a LINE_TYPES entry, tested on a line
Matches(type, line) ==
    CASE type = "h1" -> HeadingPattern(line, 1)
      [] type = "h2" -> HeadingPattern(line, 2)
      [] type = "h3" -> HeadingPattern(line, 3)
      [] type = "h4" -> HeadingPattern(line, 4)
      [] type = "h5" -> HeadingPattern(line, 5)
      [] type = "h6" -> HeadingPattern(line, 6)
      [] type = "hr" -> HrPattern(line)
      [] type = "task" -> TaskPattern(line)
      [] type = "ul" -> UlPattern(line)
      [] type = "ol" -> OlPattern(line)
      [] type = "alert" -> AlertMatch(line, FALSE) # NoMatch
      [] type = "quote" -> StartsWith(line, <<GT>>)
      [] type = "code" -> StartsWith(line, FENCE)

\* the order of LINE_TYPES with the bullet pattern ahead of the task pattern
\* and the quote pattern ahead of the alert pattern
LINE_TYPES_GeneralFirst ==
    <<"h1", "h2", "h3", "h4", "h5", "h6", "hr", "ul", "task", "ol", "quote",
      "alert", "code">>

\* the types of LINE_TYPES, in its order
LINE_TYPES ==
    <<"h1", "h2", "h3", "h4", "h5", "h6", "hr", "task", "ul", "ol", "alert",
      "quote", "code">>

DEFAULT_LINE_TYPE == "paragraph"

\* the types with a label: the entries of the line-type menu
MENU_LINE_TYPES ==
    {DEFAULT_LINE_TYPE} \cup ({LINE_TYPES[i] : i \in 1..Len(LINE_TYPES)} \ {"alert"})

\* the type of the first entry of LINE_TYPES whose pattern matches
getLineType(line) ==
    LET hit == {i \in 1..Len(LINE_TYPES) : Matches(LINE_TYPES[i], line)} IN
    IF hit = {} THEN DEFAULT_LINE_TYPE ELSE LINE_TYPES[Min(hit)]

\* /^>+\s?/ matches, and the line is no alert header
isBlockquoteLine(line) ==
    StartsWith(line, <<GT>>) /\ AlertMatch(line, FALSE) = NoMatch

getBlockquoteDepth(line) == Run(line, {GT})

----------------------------------------------------------------------------
(* applyLineType: the prefix it strips and the prefix it puts *)

\* line.replace(/^(-{3,}|\*{3,}|_{3,})\s*$/, '')
StripHr(line) == IF HrPattern(line) THEN <<>> ELSE line

\* line.replace(/^#{1,6}\s/, '')
StripHeading(line) ==
    LET r == Run(line, {HASH}) IN
    IF r >= 1 /\ r <= 6 /\ Len(line) > r /\ line[r + 1] \in WS
    THEN Drop(line, r + 1) ELSE line

\* line.replace(/^[-*+]\s\[[ xX]\]\s/, '')
StripTask(line) ==
    IF TaskPattern(line) /\ Len(line) >= 6 /\ line[6] \in WS
    THEN Drop(line, 6) ELSE line

\* line.replace(/^[-*+]\s/, '')
StripUl(line) == IF UlPattern(line) THEN Drop(line, 2) ELSE line

\* line.replace(/^\d+\.\s/, '')
StripOl(line) == IF OlPattern(line) THEN Drop(line, Run(line, DIGITS) + 2) ELSE line

\* line.replace(/^>+\s*/, ''): all the whitespace after the markers goes
StripQuote_AllSpaces(line) ==
    LET g == Run(line, {GT}) IN
    Drop(line, g + (IF g = 0 THEN 0 ELSE Run(Drop(line, g), WS)))

\* line.replace(/^>+\s?/, '')
StripQuote(line) ==
    LET g == Run(line, {GT}) IN
    IF g = 0 THEN line
    ELSE IF Len(line) > g /\ line[g + 1] \in WS THEN Drop(line, g + 1)
    ELSE Drop(line, g)

\* line.replace(/^```\w*\s*/, '')
StripFence(line) ==
    IF ~StartsWith(line, FENCE) THEN line
    ELSE LET a == Drop(line, 3)
             b == Drop(a, Run(a, WORD))
         IN Drop(b, Run(b, WS))

\* the seven replaces of applyLineType, each applied to the result of the one before
stripLinePrefix(line) ==
    StripFence(StripQuote(StripOl(StripUl(StripTask(StripHeading(StripHr(line)))))))

\* the switch with the code case taken for every type
applyLinePrefix_Block(content, type) == FENCE \o <<NL>> \o content \o <<NL>> \o FENCE

\* the switch of applyLineType: the line with the new type's marker
applyLinePrefix(content, type) ==
    CASE type = "paragraph" -> content
      [] type = "h1" -> <<"#", " ">> \o content
      [] type = "h2" -> <<"#", "#", " ">> \o content
      [] type = "h3" -> <<"#", "#", "#", " ">> \o content
      [] type = "h4" -> <<"#", "#", "#", "#", " ">> \o content
      [] type = "h5" -> <<"#", "#", "#", "#", "#", " ">> \o content
      [] type = "h6" -> <<"#", "#", "#", "#", "#", "#", " ">> \o content
      [] type = "hr" -> <<"-", "-", "-">>
      [] type = "ul" -> <<"-", " ">> \o content
      [] type = "ol" -> <<"1", ".", " ">> \o content
      [] type = "task" -> <<"-", " ", "[", " ", "]", " ">> \o content
      [] type = "quote" -> <<">", " ">> \o content
      [] type = "code" -> FENCE \o <<NL>> \o content \o <<NL>> \o FENCE
      [] OTHER -> content

----------------------------------------------------------------------------
(* Markup: escapeHtml and styleInline *)

\* the tags of the markup; a tag holds none of the characters the inline
\* patterns look for, so each is one token that . and [^x] match
TAGS == {"<span.md-heading>", "<span.md-syntax>", "<span.md-alert>",
         "<span.md-alert-type>", "<span.md-blockquote>", "<span.md-task>",
         "<span.md-list>", "<span.md-hr>", "<span.md-hr-text>",
         "<span.md-table>", "<span.md-table-sep>", "<span.md-definition>",
         "<span.md-footnote-def>", "<span.md-image>", "<span.md-alt>",
         "<span.md-url>", "<span.md-footnote>", "<span.md-link>",
         "<span.md-text>", "<span.md-bold-italic>", "<span.md-bold>",
         "<span.md-italic>", "<span.md-code>", "<span.md-math>",
         "<span.md-math-content>", "<span.md-strike>", "<span.md-escaped>",
         "<span.code-inner>", "<span.alert-inner>", "</span>",
         "<strong>", "</strong>", "<em>", "</em>", "<code>", "</code>",
         "<del>", "</del>", "<br>"}

AMP == "&amp;"
LT == "&lt;"
GTE == "&gt;"
QUOT == "&quot;"
APOS == "&#39;"

ENTITIES == {AMP, LT, GTE, QUOT, APOS}

EscapeChar(c) ==
    CASE c = "&" -> AMP
      [] c = "<" -> LT
      [] c = ">" -> GTE
      [] c = "\"" -> QUOT
      [] c = "'" -> APOS
      [] OTHER -> c

\* escapeHtml: & < > " ' become entities, each one token
escapeHtml(text) == [i \in 1..Len(text) |-> EscapeChar(text[i])]

\* the character an entity shows as
DecodeEntity(t) ==
    CASE t = AMP -> "&"
      [] t = LT -> "<"
      [] t = GTE -> ">"
      [] t = QUOT -> "\""
      [] t = APOS -> "'"

\* Node.textContent of a run of markup: the tags dropped, the entities decoded
RECURSIVE textContent(_)
textContent(html) ==
    IF html = <<>> THEN <<>>
    ELSE (IF html[1] \in TAGS THEN <<>>
          ELSE IF html[1] \in ENTITIES THEN <<DecodeEntity(html[1])>>
          ELSE <<html[1]>>) \o textContent(Tail(html))

\* the escapable characters without the asterisk
ESCAPABLE_NoAsterisk ==
    {"_", TICK, "[", "]", "(", ")", "#", "+", ",", "-", ".", "!", "\\"}

\* [*_`\[\]()#+-\.!\\]: the range +-. also holds the comma
ESCAPABLE == {"*", "_", TICK, "[", "]", "(", ")", "#", "+", ",", "-", ".", "!", "\\"}

\* ESCAPE_PLACEHOLDER + index + ESCAPE_PLACEHOLDER, one token for each index
ESCAPE_PLACEHOLDERS == <<"ESC0", "ESC1", "ESC2", "ESC3", "ESC4", "ESC5", "ESC6", "ESC7">>

\* the placeholders \u0001 and \u0002
ASTERISK == "U+0001"
UNDERSCORE == "U+0002"

\* text.replace(/\\([*_`\[\]()#+-\.!\\])/g, ...): the text with placeholders
RECURSIVE PlaceEscapes(_, _)
PlaceEscapes(text, k) ==
    IF text = <<>> THEN <<>>
    ELSE IF Len(text) >= 2 /\ text[1] = "\\" /\ text[2] \in ESCAPABLE
         THEN <<ESCAPE_PLACEHOLDERS[k + 1]>> \o PlaceEscapes(Drop(text, 2), k + 1)
         ELSE <<text[1]>> \o PlaceEscapes(Tail(text), k)

\* the array escapedChars that the same replace fills
RECURSIVE EscapedChars(_)
EscapedChars(text) ==
    IF text = <<>> THEN <<>>
    ELSE IF Len(text) >= 2 /\ text[1] = "\\" /\ text[2] \in ESCAPABLE
         THEN <<text[2]>> \o EscapedChars(Drop(text, 2))
         ELSE EscapedChars(Tail(text))

\* the length of the longest prefix of s with no token of X
RECURSIVE RunNot(_, _)
RunNot(s, X) == IF s # <<>> /\ s[1] \notin X THEN 1 + RunNot(Tail(s), X) ELSE 0

LitAt(toks, i, lit) ==
    i + Len(lit) - 1 <= Len(toks) /\ SubSeq(toks, i, i + Len(lit) - 1) = lit

\* Where the closing literal of a match of P that opens at i starts, or 0.
\* P is open (.+?) close when P.lazy, open ([^P.neg]+) close otherwise, with
\* (?<![P.before]) ahead of it and (?![P.after]) behind it.
MatchOne(toks, i, P) ==
    LET start == i + Len(P.open)
        closeAt(j) ==
            /\ LitAt(toks, j, P.close)
            /\ j + Len(P.close) > Len(toks) \/ toks[j + Len(P.close)] \notin P.after
        lazyEnds == {j \in (start + 1)..Len(toks) : closeAt(j)}
        run == RunNot(Drop(toks, start - 1), P.neg)
    IN IF ~(LitAt(toks, i, P.open) /\ (i = 1 \/ toks[i - 1] \notin P.before)) THEN 0
       ELSE IF P.lazy THEN (IF lazyEnds = {} THEN 0 ELSE Min(lazyEnds))
       ELSE IF run >= 1 /\ closeAt(start + run) THEN start + run
       ELSE 0

\* result.replace(P, P.pre $1 P.post) with the g flag, from token i on
RECURSIVE ReplaceOne(_, _, _)
ReplaceOne(toks, i, P) ==
    IF i > Len(toks) THEN <<>>
    ELSE LET j == MatchOne(toks, i, P) IN
         IF j > 0
         THEN P.pre \o SubSeq(toks, i + Len(P.open), j - 1) \o P.post
                  \o ReplaceOne(toks, j + Len(P.close), P)
         ELSE <<toks[i]>> \o ReplaceOne(toks, i + 1, P)

\* open ([^\]]*) or ([^\]]+) then ]( then ([^)]+) then ): where the ]( starts, or 0
MatchTwo(toks, i, P) ==
    LET start == i + Len(P.open)
        run1 == RunNot(Drop(toks, start - 1), {"]"})
        mid == start + run1
        run2 == RunNot(Drop(toks, mid + 1), {")"})
    IN IF /\ LitAt(toks, i, P.open)
          /\ run1 >= P.min
          /\ LitAt(toks, mid, <<"]", "(">>)
          /\ run2 >= 1
          /\ LitAt(toks, mid + 2 + run2, <<")">>)
       THEN mid ELSE 0

\* result.replace(P, P.pre $1 P.mid $2 P.post) with the g flag, from token i on
RECURSIVE ReplaceTwo(_, _, _)
ReplaceTwo(toks, i, P) ==
    IF i > Len(toks) THEN <<>>
    ELSE LET m == MatchTwo(toks, i, P)
             run2 == RunNot(Drop(toks, m + 1), {")"})
         IN IF m > 0
            THEN P.pre \o SubSeq(toks, i + Len(P.open), m - 1) \o P.mid
                     \o SubSeq(toks, m + 2, m + 1 + run2) \o P.post
                     \o ReplaceTwo(toks, m + 3 + run2, P)
            ELSE <<toks[i]>> \o ReplaceTwo(toks, i + 1, P)

SYN == "<span.md-syntax>"
END == "</span>"

\* /!\[([^\]]*)\]\(([^)]+)\)/g
IMAGE ==
    [groups |-> 2, open |-> <<"!", "[">>, min |-> 0,
     pre |-> <<"<span.md-image>", SYN, "!", "[", END, "<span.md-alt>">>,
     mid |-> <<END, SYN, "]", "(", END, "<span.md-url>">>,
     post |-> <<END, SYN, ")", END, END>>]

\* /\[([^\]]+)\]\(([^)]+)\)/g
LINK ==
    [groups |-> 2, open |-> <<"[">>, min |-> 1,
     pre |-> <<"<span.md-link>", SYN, "[", END, "<span.md-text>">>,
     mid |-> <<END, SYN, "]", "(", END, "<span.md-url>">>,
     post |-> <<END, SYN, ")", END, END>>]

\* /\[\^([^\]]+)\]/g
FOOTNOTE ==
    [groups |-> 1, open |-> <<"[", "^">>, close |-> <<"]">>, lazy |-> FALSE, neg |-> {"]"},
     before |-> {}, after |-> {},
     pre |-> <<"<span.md-footnote>", SYN, "[", "^", END>>,
     post |-> <<SYN, "]", END, END>>]

\* /\*\*\*(.+?)\*\*\*/g
BOLD_ITALIC ==
    [groups |-> 1, open |-> <<"*", "*", "*">>, close |-> <<"*", "*", "*">>, lazy |-> TRUE,
     neg |-> {}, before |-> {}, after |-> {},
     pre |-> <<"<span.md-bold-italic>", SYN, ASTERISK, ASTERISK, ASTERISK, END,
               "<strong>", "<em>">>,
     post |-> <<"</em>", "</strong>", SYN, ASTERISK, ASTERISK, ASTERISK, END, END>>]

\* /\*\*(.+?)\*\*/g
BOLD ==
    [groups |-> 1, open |-> <<"*", "*">>, close |-> <<"*", "*">>, lazy |-> TRUE,
     neg |-> {}, before |-> {}, after |-> {},
     pre |-> <<"<span.md-bold>", SYN, ASTERISK, ASTERISK, END, "<strong>">>,
     post |-> <<"</strong>", SYN, ASTERISK, ASTERISK, END, END>>]

\* /(?<![a-zA-Z0-9])__(.+?)__(?![a-zA-Z0-9])/g
BOLD_UNDERSCORE ==
    [groups |-> 1, open |-> <<"_", "_">>, close |-> <<"_", "_">>, lazy |-> TRUE,
     neg |-> {}, before |-> ALNUM, after |-> ALNUM,
     pre |-> <<"<span.md-bold>", SYN, UNDERSCORE, UNDERSCORE, END, "<strong>">>,
     post |-> <<"</strong>", SYN, UNDERSCORE, UNDERSCORE, END, END>>]

\* /(?<!\*)\*([^*]+)\*(?!\*)/g
ITALIC ==
    [groups |-> 1, open |-> <<"*">>, close |-> <<"*">>, lazy |-> FALSE,
     neg |-> {"*"}, before |-> {"*"}, after |-> {"*"},
     pre |-> <<"<span.md-italic>", SYN, ASTERISK, END, "<em>">>,
     post |-> <<"</em>", SYN, ASTERISK, END, END>>]

\* /(?<!_)_([^_]+)_(?!_)/g
ITALIC_UNDERSCORE ==
    [groups |-> 1, open |-> <<"_">>, close |-> <<"_">>, lazy |-> FALSE,
     neg |-> {"_"}, before |-> {"_"}, after |-> {"_"},
     pre |-> <<"<span.md-italic>", SYN, UNDERSCORE, END, "<em>">>,
     post |-> <<"</em>", SYN, UNDERSCORE, END, END>>]

\* /`([^`]+)`/g
INLINE_CODE ==
    [groups |-> 1, open |-> <<TICK>>, close |-> <<TICK>>, lazy |-> FALSE,
     neg |-> {TICK}, before |-> {}, after |-> {},
     pre |-> <<"<span.md-code>", SYN, TICK, END, "<code>">>,
     post |-> <<"</code>", SYN, TICK, END, END>>]

\* /\$([^$]+)\$/g
MATH ==
    [groups |-> 1, open |-> <<"$">>, close |-> <<"$">>, lazy |-> FALSE,
     neg |-> {"$"}, before |-> {}, after |-> {},
     pre |-> <<"<span.md-math>", SYN, "$", END, "<span.md-math-content>">>,
     post |-> <<END, SYN, "$", END, END>>]

\* /~~([^~]+)~~/g
STRIKE ==
    [groups |-> 1, open |-> <<"~", "~">>, close |-> <<"~", "~">>, lazy |-> FALSE,
     neg |-> {"~"}, before |-> {}, after |-> {},
     pre |-> <<"<span.md-strike>", SYN, "~", "~", END, "<del>">>,
     post |-> <<"</del>", SYN, "~", "~", END, END>>]

\* result.replace(new RegExp(ASTERISK, 'g'), '*') and the same for UNDERSCORE
RestoreMarkers(toks) ==
    [i \in 1..Len(toks) |->
        IF toks[i] = ASTERISK THEN "*"
        ELSE IF toks[i] = UNDERSCORE THEN "_"
        ELSE toks[i]]

PlaceholderIndex(t) == (CHOOSE k \in 1..Len(ESCAPE_PLACEHOLDERS) : ESCAPE_PLACEHOLDERS[k] = t) - 1

IsPlaceholder(t) == \E k \in 1..Len(ESCAPE_PLACEHOLDERS) : ESCAPE_PLACEHOLDERS[k] = t

\* the last replace of styleInline: each placeholder becomes an md-escaped span
RECURSIVE RestoreEscapes(_, _)
RestoreEscapes(toks, escapedChars) ==
    IF toks = <<>> THEN <<>>
    ELSE (IF IsPlaceholder(toks[1])
          THEN <<"<span.md-escaped>", SYN, "\\", END>>
                   \o escapeHtml(<<escapedChars[PlaceholderIndex(toks[1]) + 1]>>) \o <<END>>
          ELSE <<toks[1]>>) \o RestoreEscapes(Tail(toks), escapedChars)

\* the replaces of styleInline between the escapes and their restoring, in the
\* order of the source; RESTORE_MARKERS stands for the two replaces that put
\* the * and _ back
RESTORE_MARKERS == [groups |-> 0]

\* the passes with bold before bold-italic
INLINE_PASSES_BoldFirst ==
    <<IMAGE, FOOTNOTE, LINK, BOLD, BOLD_ITALIC, BOLD_UNDERSCORE, ITALIC,
      ITALIC_UNDERSCORE, RESTORE_MARKERS, INLINE_CODE, MATH, STRIKE>>

\* the replaces of styleInline, in their order
INLINE_PASSES ==
    <<IMAGE, FOOTNOTE, LINK, BOLD_ITALIC, BOLD, BOLD_UNDERSCORE, ITALIC,
      ITALIC_UNDERSCORE, RESTORE_MARKERS, INLINE_CODE, MATH, STRIKE>>

\* one replace of styleInline
Replace(toks, P) ==
    IF P.groups = 0 THEN RestoreMarkers(toks)
    ELSE IF P.groups = 2 THEN ReplaceTwo(toks, 1, P)
    ELSE ReplaceOne(toks, 1, P)

\* the replaces of passes, each on the result of the one before
RECURSIVE Replaces(_, _)
Replaces(toks, passes) ==
    IF passes = <<>> THEN toks
    ELSE Replaces(Replace(toks, passes[1]), Tail(passes))

\* styleInline
styleInline(text) ==
    IF text = <<>> THEN <<>>
    ELSE RestoreEscapes(Replaces(escapeHtml(PlaceEscapes(text, 0)), INLINE_PASSES),
                        EscapedChars(text))

----------------------------------------------------------------------------
(* styleLine *)

\* String.prototype.split(sep) for a one-character separator
RECURSIVE SplitOn(_, _)
SplitOn(s, sep) ==
    LET at == {i \in 1..Len(s) : s[i] = sep} IN
    IF at = {} THEN <<s>>
    ELSE <<Take(s, Min(at) - 1)>> \o SplitOn(Drop(s, Min(at)), sep)

\* /^[\s:-]+$/
IsSeparatorCell(cell) == cell # <<>> /\ \A i \in 1..Len(cell) : cell[i] \in WS \cup {":", "-"}

StyleCell(cell) ==
    IF IsSeparatorCell(cell)
    THEN <<"<span.md-table-sep>">> \o escapeHtml(cell) \o <<END>>
    ELSE styleInline(cell)

\* styledCells.join('<span class="md-syntax">|</span>')
RECURSIVE JoinCells(_)
JoinCells(cells) ==
    IF cells = <<>> THEN <<>>
    ELSE IF Len(cells) = 1 THEN StyleCell(cells[1])
    ELSE StyleCell(cells[1]) \o <<SYN, "|", END>> \o JoinCells(Tail(cells))

Styled(kind, level, html) == [kind |-> kind, level |-> level, html |-> html]

\* a branch of styleLine: the markup it opens with, the group it hands to
\* styleInline (for a table row, the cells), and the markup it closes with
Parts(kind, level, open, text, close) ==
    [kind |-> kind, level |-> level, open |-> open, text |-> text, close |-> close]

\* the branch styleLine takes, in the order of the source
LineParts(line) ==
    LET hashes == Run(line, {HASH})
        gts == Run(line, {GT})
        indent == Run(line, WS)
        body == Drop(line, indent)
        digits == Run(body, DIGITS)
        trimmed == Trim(line)
        cells == SplitOn(line, "|")
        idLen == RunNot(Drop(line, 2), {"]"})
    IN
    IF line = <<>> THEN Parts("empty", 0, <<>>, <<>>, <<>>)
    \* /^(#{1,6})\s(.*)$/
    ELSE IF hashes >= 1 /\ hashes <= 6 /\ Len(line) > hashes /\ line[hashes + 1] \in WS
    THEN Parts("heading", hashes,
               <<"<span.md-heading>", SYN>> \o Take(line, hashes) \o <<END, " ">>,
               Drop(line, hashes + 1), <<END>>)
    \* /^>\s*\[!(NOTE|TIP|IMPORTANT|WARNING|CAUTION)\]\s*$/i
    ELSE IF AlertMatch(line, TRUE) # NoMatch
    THEN Parts("alert", 0,
               <<"<span.md-alert>", SYN, GTE, " ", "[", "!", END, "<span.md-alert-type>">>
                   \o ToUpper(AlertMatch(line, TRUE)) \o <<END, SYN, "]", END, END>>,
               <<>>, <<>>)
    \* /^(>+)\s?(.*)$/
    ELSE IF gts >= 1
    THEN Parts("quote", gts,
               <<"<span.md-blockquote>", SYN>> \o escapeHtml(Take(line, gts)) \o <<END, " ">>,
               IF Len(line) > gts /\ line[gts + 1] \in WS
               THEN Drop(line, gts + 1) ELSE Drop(line, gts),
               <<END>>)
    \* /^(\s*)([-*+])\s\[([ xX])\]\s(.*)$/
    ELSE IF TaskPattern(body) /\ Len(body) >= 6 /\ body[6] \in WS
    THEN Parts("task", 0,
               escapeHtml(Take(line, indent))
                   \o <<"<span.md-task>", SYN, body[1], " ", "[", body[4], "]", END, " ">>,
               Drop(body, 6), <<END>>)
    \* /^(\s*)([-*+])\s(.*)$/
    ELSE IF UlPattern(body)
    THEN Parts("ul", 0,
               escapeHtml(Take(line, indent)) \o <<"<span.md-list>", SYN, body[1], END, " ">>,
               Drop(body, 2), <<END>>)
    \* /^(\s*)(\d+\.)\s(.*)$/
    ELSE IF OlPattern(body)
    THEN Parts("ol", 0,
               escapeHtml(Take(line, indent))
                   \o <<"<span.md-list>", SYN>> \o Take(body, digits + 1) \o <<END, " ">>,
               Drop(body, digits + 2), <<END>>)
    \* /^(-{3,}|_{3,}|\*{3,})$/.test(line.trim())
    ELSE IF \E c \in HR_CHARS : Len(trimmed) >= 3 /\ Run(trimmed, {c}) = Len(trimmed)
    THEN Parts("hr", 0,
               <<"<span.md-hr>", "<span.md-hr-text>">> \o escapeHtml(line) \o <<END, END>>,
               <<>>, <<>>)
    \* /^\|(.+)\|$/
    ELSE IF Len(line) >= 3 /\ line[1] = "|" /\ line[Len(line)] = "|"
    THEN Parts("table", 0, <<"<span.md-table>", SYN, "|", END>>,
               SubSeq(cells, 2, Len(cells) - 1), <<SYN, "|", END, END>>)
    \* /^:\s(.*)$/
    ELSE IF Len(line) >= 2 /\ line[1] = ":" /\ line[2] \in WS
    THEN Parts("definition", 0, <<"<span.md-definition>", SYN, ":", END, " ">>,
               Drop(line, 2), <<END>>)
    \* /^\[\^([^\]]+)\]:\s(.*)$/
    ELSE IF /\ StartsWith(line, <<"[", "^">>)
            /\ idLen >= 1
            /\ Len(line) >= idLen + 5
            /\ line[idLen + 3] = "]"
            /\ line[idLen + 4] = ":"
            /\ line[idLen + 5] \in WS
    THEN Parts("footnote-def", 0,
               <<"<span.md-footnote-def>", SYN, "[", "^">>
                   \o escapeHtml(SubSeq(line, 3, idLen + 2)) \o <<"]", ":", END, " ">>,
               Drop(line, idLen + 5), <<END>>)
    ELSE Parts("paragraph", 0, <<>>, line, <<>>)

\* the markup of a branch: its group styled inline between what it opens and
\* closes with
StyledParts(parts) ==
    Styled(parts.kind, parts.level,
           parts.open
               \o (IF parts.kind = "table" THEN JoinCells(parts.text)
                   ELSE styleInline(parts.text))
               \o parts.close)

\* styleLine: the branch taken, the heading level or quote depth, and the markup
styleLine(line) == StyledParts(LineParts(line))

----------------------------------------------------------------------------
(* markdownToStyledHtml *)

\* currentAlertType = null
NoAlert == <<>>

Info(line, flag, alertType, depth) ==
    [line |-> line,
     isBlockquote |-> flag = "blockquote",
     blockquoteDepth |-> depth,
     isAlertHeader |-> flag = "alertHeader",
     isAlertContent |-> flag = "alertContent",
     isCodeFence |-> flag = "codeFence",
     isCodeContent |-> flag = "codeContent",
     alertType |-> alertType]

\* a first pass that looks for the alert header before it looks at the fences
RECURSIVE LineInfos_AlertFirst(_, _, _)
LineInfos_AlertFirst(lines, inCodeBlock, currentAlertType) ==
    IF lines = <<>> THEN <<>>
    ELSE LET line == lines[1]
             rest == Tail(lines)
             header == AlertMatch(line, TRUE)
         IN
         IF header # NoMatch
         THEN <<Info(line, "alertHeader", ToLower(header), 0)>>
                  \o LineInfos_AlertFirst(rest, inCodeBlock, ToLower(header))
         ELSE IF currentAlertType # NoAlert /\ StartsWith(line, <<GT>>)
         THEN <<Info(line, "alertContent", currentAlertType, 0)>>
                  \o LineInfos_AlertFirst(rest, inCodeBlock, currentAlertType)
         ELSE IF StartsWith(line, FENCE)
         THEN <<Info(line, "codeFence", NoAlert, 0)>>
                  \o LineInfos_AlertFirst(rest, ~inCodeBlock, NoAlert)
         ELSE IF inCodeBlock
         THEN <<Info(line, "codeContent", NoAlert, 0)>>
                  \o LineInfos_AlertFirst(rest, inCodeBlock, currentAlertType)
         ELSE IF isBlockquoteLine(line)
         THEN <<Info(line, "blockquote", NoAlert, getBlockquoteDepth(line))>>
                  \o LineInfos_AlertFirst(rest, inCodeBlock, NoAlert)
         ELSE <<Info(line, "", NoAlert, 0)>>
                  \o LineInfos_AlertFirst(rest, inCodeBlock, NoAlert)

\* a first pass that keeps the alert type over a line that does not start with >
RECURSIVE LineInfos_NoReset(_, _, _)
LineInfos_NoReset(lines, inCodeBlock, currentAlertType) ==
    IF lines = <<>> THEN <<>>
    ELSE LET line == lines[1]
             rest == Tail(lines)
             header == AlertMatch(line, TRUE)
         IN
         IF StartsWith(line, FENCE)
         THEN <<Info(line, "codeFence", NoAlert, 0)>>
                  \o LineInfos_NoReset(rest, ~inCodeBlock, NoAlert)
         ELSE IF inCodeBlock
         THEN <<Info(line, "codeContent", NoAlert, 0)>>
                  \o LineInfos_NoReset(rest, inCodeBlock, currentAlertType)
         ELSE IF header # NoMatch
         THEN <<Info(line, "alertHeader", ToLower(header), 0)>>
                  \o LineInfos_NoReset(rest, inCodeBlock, ToLower(header))
         ELSE IF currentAlertType # NoAlert /\ StartsWith(line, <<GT>>)
         THEN <<Info(line, "alertContent", currentAlertType, 0)>>
                  \o LineInfos_NoReset(rest, inCodeBlock, currentAlertType)
         ELSE IF isBlockquoteLine(line)
         THEN <<Info(line, "blockquote", NoAlert, getBlockquoteDepth(line))>>
                  \o LineInfos_NoReset(rest, inCodeBlock, currentAlertType)
         ELSE <<Info(line, "", NoAlert, 0)>>
                  \o LineInfos_NoReset(rest, inCodeBlock, currentAlertType)

\* the first pass: the lineInfos of the lines, given inCodeBlock and
\* currentAlertType as the loop has them on entry
RECURSIVE LineInfos(_, _, _)
LineInfos(lines, inCodeBlock, currentAlertType) ==
    IF lines = <<>> THEN <<>>
    ELSE LET line == lines[1]
             rest == Tail(lines)
             header == AlertMatch(line, TRUE)
             \* if (!line.match(/^>\s?/)) currentAlertType = null
             kept == IF StartsWith(line, <<GT>>) THEN currentAlertType ELSE NoAlert
         IN
         IF StartsWith(line, FENCE)
         THEN <<Info(line, "codeFence", NoAlert, 0)>>
                  \o LineInfos(rest, ~inCodeBlock, NoAlert)
         ELSE IF inCodeBlock
         THEN <<Info(line, "codeContent", NoAlert, 0)>>
                  \o LineInfos(rest, inCodeBlock, currentAlertType)
         ELSE IF header # NoMatch
         THEN <<Info(line, "alertHeader", ToLower(header), 0)>>
                  \o LineInfos(rest, inCodeBlock, ToLower(header))
         ELSE IF currentAlertType # NoAlert /\ StartsWith(line, <<GT>>)
         THEN <<Info(line, "alertContent", currentAlertType, 0)>>
                  \o LineInfos(rest, inCodeBlock, currentAlertType)
         ELSE IF isBlockquoteLine(line)
         THEN <<Info(line, "blockquote", NoAlert, getBlockquoteDepth(line))>>
                  \o LineInfos(rest, inCodeBlock, kept)
         ELSE <<Info(line, "", NoAlert, 0)>>
                  \o LineInfos(rest, inCodeBlock, kept)

\* the gutter with the lines numbered from 0
generateLinePrefix_ZeroBased(lineNumber, line, isCodeContent) ==
    IF isCodeContent
    THEN [number |-> lineNumber - 1, button |-> "disabled", dataLine |-> -1, icon |-> ""]
    ELSE [number |-> lineNumber - 1, button |-> "enabled", dataLine |-> lineNumber - 1,
          icon |-> getLineType(line)]

\* generateLinePrefix: the gutter of a line block
generateLinePrefix(lineNumber, line, isCodeContent) ==
    IF isCodeContent
    THEN [number |-> lineNumber, button |-> "disabled", dataLine |-> -1, icon |-> ""]
    ELSE [number |-> lineNumber, button |-> "enabled", dataLine |-> lineNumber - 1,
          icon |-> getLineType(line)]

\* a line block: its classes, its gutter and the markup of its .line-content
Block(cls, prefix, kind, level, alertType, first, lastOfGroup, html) ==
    [cls |-> cls, prefix |-> prefix, kind |-> kind, level |-> level,
     alertType |-> alertType, first |-> first, last |-> lastOfGroup, html |-> html]

\* the block of line i in the second pass, given its gutter and its styled content
HtmlLine(infos, i, inCodeBlock, prefix, styled) ==
    LET info == infos[i]
        prevIs(f) == i > 1 /\ infos[i - 1][f]
        nextIs(f) == i < Len(infos) /\ infos[i + 1][f]
        content == escapeHtml(info.line)
    IN
    IF info.isCodeFence
    THEN (IF ~inCodeBlock
          THEN Block("code-fence code-start", prefix, "", 0, NoAlert, FALSE, FALSE,
                     <<"<span.code-inner>">> \o FENCE
                         \o escapeHtml(Trim(Drop(info.line, 3))) \o <<END>>)
          ELSE Block("code-fence code-end", prefix, "", 0, NoAlert, FALSE, FALSE,
                     <<"<span.code-inner>">> \o FENCE \o <<END>>))
    ELSE IF info.isCodeContent
    THEN Block(IF content = <<>> THEN "code-content empty-line" ELSE "code-content",
               prefix, "", 0, NoAlert, FALSE, FALSE,
               <<"<span.code-inner>">>
                   \o (IF content = <<>> THEN <<"<br>">> ELSE content) \o <<END>>)
    ELSE IF info.isAlertHeader
    THEN Block("md-alert", prefix, "", 0, info.alertType, TRUE, ~nextIs("isAlertContent"),
               <<"<span.alert-inner>", SYN, GTE, " ", "[", "!", END, "<span.md-alert-type>">>
                   \o ToUpper(AlertMatch(info.line, TRUE))
                   \o <<END, SYN, "]", END, END>>)
    ELSE IF info.isAlertContent
    THEN Block("md-alert-content", prefix, "", 0, info.alertType, FALSE,
               ~nextIs("isAlertContent"),
               <<"<span.alert-inner>", SYN, GTE, END, " ">> \o styled.html \o <<END>>)
    ELSE IF info.isBlockquote
    THEN Block("blockquote-line", prefix, styled.kind,
               IF info.blockquoteDepth < 3 THEN info.blockquoteDepth ELSE 3, NoAlert,
               ~prevIs("isBlockquote"), ~nextIs("isBlockquote"), styled.html)
    ELSE Block(IF styled.html = <<>> THEN "empty-line" ELSE "",
               prefix, styled.kind, styled.level, NoAlert, FALSE, FALSE,
               IF styled.html = <<>> THEN <<"<br>">> ELSE styled.html)

\* what the second pass styles of a line: styleInline(info.line.replace(/^>\s?/, ''))
\* for the content of an alert, styleLine(info.line) for a blockquote and a
\* regular line, nothing for the lines of a code block and an alert header
StyledContent(info) ==
    IF info.isCodeFence \/ info.isCodeContent \/ info.isAlertHeader
    THEN Styled("", 0, <<>>)
    ELSE IF info.isAlertContent
    THEN Styled("", 0, styleInline(IF Len(info.line) > 1 /\ info.line[2] \in WS
                                   THEN Drop(info.line, 2) ELSE Drop(info.line, 1)))
    ELSE styleLine(info.line)

\* the second pass, from line i on, with inCodeBlock as the loop has it there
RECURSIVE HtmlLines(_, _, _)
HtmlLines(infos, i, inCodeBlock) ==
    IF i > Len(infos) THEN <<>>
    ELSE <<HtmlLine(infos, i, inCodeBlock,
                    generateLinePrefix(i, infos[i].line, infos[i].isCodeContent),
                    StyledContent(infos[i]))>>
             \o HtmlLines(infos, i + 1,
                          IF infos[i].isCodeFence THEN ~inCodeBlock ELSE inCodeBlock)

\* markdownToStyledHtml: the line blocks of the markdown, in order
markdownToStyledHtml(markdown) ==
    HtmlLines(LineInfos(Split(markdown), FALSE, NoAlert), 1, FALSE)

\* extractMarkdown: the text of each block's .line-content, joined with newlines
extractMarkdown(container) ==
    Join([i \in 1..Len(container) |-> textContent(container[i].html)])

----------------------------------------------------------------------------
(* The position mapper *)

\* no selection in a line: window.getSelection().rangeCount = 0, or the range
\* is in no line block, as it is when innerHTML has replaced the blocks; and
\* the null that saveCursorPosition returns then
NoCursor == [lineIndex |-> -1, offset |-> 0, inText |-> FALSE]

\* the length of the decimal numeral of n
NumeralLength(n) == IF n < 10 THEN 1 ELSE IF n < 100 THEN 2 ELSE 3

\* the length of the icon of a LINE_TYPES entry ('H1'..'H6', '1.' and '{}' are two characters)
IconLength(type) == IF type \in {"h1", "h2", "h3", "h4", "h5", "h6", "ol", "code"} THEN 2 ELSE 1

\* the text in the gutter of a block: the line number, and the icon of an enabled button
PrefixTextLength(prefix) ==
    NumeralLength(prefix.number)
        + (IF prefix.button = "enabled" THEN IconLength(prefix.icon) ELSE 0)

\* saveCursorPosition. The selection start is given by its line block, its
\* offset in the text of the block's .line-content, and whether its container
\* is a text node; the walk runs over every text node of the line block.
saveCursorPosition(container, sel) ==
    IF sel = NoCursor THEN NoCursor
    ELSE [lineIndex |-> sel.lineIndex,
          offset |-> IF sel.inText
                     THEN PrefixTextLength(container[sel.lineIndex + 1].prefix) + sel.offset
                     ELSE sel.offset,
          inText |-> FALSE]

\* restoreCursorPosition that takes the offset as it is
restoreCursorPosition_NoClamp(container, pos, sel) ==
    IF pos.lineIndex >= Len(container) THEN sel
    ELSE [lineIndex |-> pos.lineIndex, offset |-> pos.offset,
          inText |-> textContent(container[pos.lineIndex + 1].html) # <<>>]

\* restoreCursorPosition: the selection it leaves, given the one there was
restoreCursorPosition(container, pos, sel) ==
    IF pos.lineIndex >= Len(container) THEN sel
    ELSE LET length == Len(textContent(container[pos.lineIndex + 1].html)) IN
         [lineIndex |-> pos.lineIndex,
          offset |-> IF pos.offset <= length THEN pos.offset ELSE length,
          inText |-> length > 0]

\* placeCursorAtStart: the selection it leaves
placeCursorAtStart(container) ==
    [lineIndex |-> 0, offset |-> 0, inText |-> textContent(container[1].html) # <<>>]

Position(lineIndex, offset) == [lineIndex |-> lineIndex, offset |-> offset, inText |-> FALSE]

----------------------------------------------------------------------------
(* The table of contents *)

\* updateTocFromMarkdown: the lines that match /^(#{1,6})\s+(.*)$/
RECURSIVE Headings(_)
Headings(lines) ==
    IF lines = <<>> THEN <<>>
    ELSE LET line == lines[1]
             hashes == Run(line, {HASH})
             spaces == Run(Drop(line, hashes), WS)
         IN (IF hashes >= 1 /\ hashes <= 6 /\ spaces >= 1
             THEN <<[level |-> hashes, text |-> Drop(line, hashes + spaces)]>>
             ELSE <<>>) \o Headings(Tail(lines))

updateTocFromMarkdown(markdown) == Headings(Split(markdown))

----------------------------------------------------------------------------
(* The debounced edit notification *)

EDIT_DEBOUNCE_MS == 300

\* sendEdit without the clearTimeout
sendEdit_NoClear(pending, markdown, time) ==
    pending \cup {[deadline |-> time + EDIT_DEBOUNCE_MS, markdown |-> markdown]}

\* sendEdit: the pending timers after it clears the one before and sets its own
sendEdit(pending, markdown, time) ==
    {[deadline |-> time + EDIT_DEBOUNCE_MS, markdown |-> markdown]}

----------------------------------------------------------------------------
(* The handlers *)

Entry(op, lineIndex, type, from, to, before, after) ==
    [op |-> op, lineIndex |-> lineIndex, type |-> type, from |-> from, to |-> to,
     before |-> before, after |-> after, at |-> now]

\* an editing handler that sets isExternalUpdate for the render and returns
\* without clearing it
Commit_NoClear(newMarkdown, pos, entry) ==
    /\ timers' = sendEdit(timers, newMarkdown, now)
    /\ surface' = <<>>
    /\ isExternalUpdate' = TRUE
    /\ cursor' = NoCursor
    /\ toc' = updateTocFromMarkdown(newMarkdown)
    /\ log' = Append(log, entry)
    /\ UNCHANGED <<inbox, lastSentContent, now, outbox, stored, host>>

\* what every editing handler ends with: sendEdit(newMarkdown), the render
\* between isExternalUpdate = true and = false, the cursor, the TOC
\* (pos is NoCursor where the handler does not restore the cursor)
Commit(newMarkdown, pos, entry) ==
    /\ timers' = sendEdit(timers, newMarkdown, now)
    /\ surface' = markdownToStyledHtml(newMarkdown)
    /\ isExternalUpdate' = FALSE
    /\ cursor' = IF pos = NoCursor THEN NoCursor
                  ELSE restoreCursorPosition(surface', pos, NoCursor)
    /\ toc' = updateTocFromMarkdown(newMarkdown)
    /\ log' = Append(log, entry)
    /\ UNCHANGED <<inbox, lastSentContent, now, outbox, stored, host>>

\* the 'init' message: initEditor(container, content)
ReceiveInit ==
    /\ inbox # <<>>
    /\ inbox[1].type = "init"
    /\ inbox' = Tail(inbox)
    /\ lastSentContent' = inbox[1].content
    /\ surface' = markdownToStyledHtml(inbox[1].content)
    /\ toc' = updateTocFromMarkdown(inbox[1].content)
    /\ cursor' = IF stored # NoCursor
                  THEN restoreCursorPosition(surface', stored, NoCursor)
                  ELSE placeCursorAtStart(surface')
    /\ log' = Append(log, Entry("init", 0, "", 0, 0, <<>>, inbox[1].content))
    /\ UNCHANGED <<isExternalUpdate, timers, now, outbox, stored, host>>

\* what a handler leaves: the timers, the surface, the selection and the TOC
Webview(pending, container, sel, headings) ==
    [timers |-> pending, surface |-> container, cursor |-> sel, toc |-> headings]

\* handleInput without its first test
handleInput_NoGuard(flag, pending, container, sel, headings, time) ==
    LET cursorPos == saveCursorPosition(container, sel)
        markdown == extractMarkdown(container)
        rendered == markdownToStyledHtml(markdown)
    IN Webview(sendEdit(pending, markdown, time),
               rendered,
               IF cursorPos = NoCursor THEN NoCursor
               ELSE restoreCursorPosition(rendered, cursorPos, NoCursor),
               updateTocFromMarkdown(markdown))

\* handleInput, run by an input event when the flag isExternalUpdate is flag:
\* with the flag set it returns at once
handleInput(flag, pending, container, sel, headings, time) ==
    IF flag THEN Webview(pending, container, sel, headings)
    ELSE LET cursorPos == saveCursorPosition(container, sel)
             markdown == extractMarkdown(container)
             rendered == markdownToStyledHtml(markdown)
         IN Webview(sendEdit(pending, markdown, time),
                    rendered,
                    IF cursorPos = NoCursor THEN NoCursor
                    ELSE restoreCursorPosition(rendered, cursorPos, NoCursor),
                    updateTocFromMarkdown(markdown))

\* the state a handler of the webview leaves, its entry in the history, and
\* the state that saveState has stored
Leave(w, entry, state) ==
    /\ stored' = state
    /\ timers' = w.timers
    /\ surface' = w.surface
    /\ cursor' = w.cursor
    /\ toc' = w.toc
    /\ log' = Append(log, entry)

\* the user types c at the cursor, and the input event runs its two
\* listeners: handleInput, then saveState
TypeChar(c) ==
    /\ surface # <<>>
    /\ cursor # NoCursor
    /\ LET i == cursor.lineIndex + 1
           text == textContent(surface[i].html)
           typed == Take(text, cursor.offset) \o <<c>> \o Drop(text, cursor.offset)
           edited == [surface EXCEPT ![i].html = escapeHtml(typed)]
           sel == [lineIndex |-> cursor.lineIndex, offset |-> cursor.offset + 1,
                   inText |-> TRUE]
           w == handleInput(isExternalUpdate, timers, edited, sel, toc, now)
       IN Leave(w,
                Entry("input", cursor.lineIndex, c, cursor.offset, cursor.offset,
                      extractMarkdown(surface), extractMarkdown(edited)),
                saveCursorPosition(w.surface, w.cursor))
    /\ UNCHANGED <<inbox, isExternalUpdate, lastSentContent, now, outbox, host>>

\* updateEditorContent between isExternalUpdate = true and the finally: the
\* render, the TOC, the cursor. The platform may deliver an input event for
\* the content that the render has just put in place (fired); handleInput
\* then runs with the flag set, and saveState after it, which finds the
\* selection in no line.
ExternalUpdate(markdown, fired, pending, container, sel, headings, time) ==
    LET cursorPos == saveCursorPosition(container, sel)
        rendered == markdownToStyledHtml(markdown)
        w == IF fired THEN handleInput(TRUE, pending, rendered, NoCursor, headings, time)
             ELSE Webview(pending, rendered, NoCursor, headings)
    IN Webview(w.timers,
               w.surface,
               IF cursorPos = NoCursor THEN w.cursor
               ELSE restoreCursorPosition(w.surface, cursorPos, w.cursor),
               updateTocFromMarkdown(markdown))

\* updateEditorContent that never takes the content for its own
SkipsUpdate_Never(markdown, last) == FALSE

\* the test updateEditorContent returns on: markdown === lastSentContent
SkipsUpdate(markdown, last) == markdown = last

\* the 'update' message: updateEditorContent(content)
ReceiveUpdate(fired) ==
    /\ inbox # <<>>
    /\ inbox[1].type = "update"
    /\ inbox' = Tail(inbox)
    /\ IF surface = <<>> \/ SkipsUpdate(inbox[1].content, lastSentContent)
       THEN /\ ~fired
            /\ log' = Append(log, Entry("update", 0, "", 0, 0, lastSentContent,
                                        inbox[1].content))
            /\ UNCHANGED <<surface, cursor, lastSentContent, timers, toc, stored>>
       ELSE /\ lastSentContent' = inbox[1].content
            /\ LET w == ExternalUpdate(inbox[1].content, fired, timers, surface,
                                       cursor, toc, now)
               IN Leave(w,
                        Entry("update", 0, IF fired THEN "input" ELSE "", 0, 0,
                              lastSentContent, inbox[1].content),
                        IF fired THEN NoCursor ELSE stored)
    /\ UNCHANGED <<isExternalUpdate, now, outbox, host>>

\* a click on an entry of the line-type menu, opened from the button of line
\* lineIndex: applyLineType(lineIndex, type)
ApplyLineType(lineIndex, type) ==
    /\ surface # <<>>
    /\ lineIndex + 1 \in DOMAIN surface
    /\ surface[lineIndex + 1].prefix.button = "enabled"
    /\ type \in MENU_LINE_TYPES
    /\ LET markdown == extractMarkdown(surface)
           lines == Split(markdown)
           line == applyLinePrefix(stripLinePrefix(lines[lineIndex + 1]), type)
           newMarkdown == Join([lines EXCEPT ![lineIndex + 1] = line])
       IN Commit(newMarkdown, Position(lineIndex, 0),
                 Entry("applyLineType", lineIndex, type, 0, 0, markdown, newMarkdown))

\* the markers of an inline format
FormatPrefix(format) ==
    CASE format = "bold" -> <<"*", "*">>
      [] format = "italic" -> <<"*">>
      [] format = "code" -> <<TICK>>
      [] format = "strikethrough" -> <<"~", "~">>

\* selectedText.match(/^\[(.+)\]\(.+\)$/): the text of group 1, or NoMatch
LinkMatch(selectedText) ==
    LET mids == {m \in 3..(Len(selectedText) - 3) :
                    selectedText[m] = "]" /\ selectedText[m + 1] = "("}
    IN IF /\ Len(selectedText) >= 6
          /\ selectedText[1] = "["
          /\ selectedText[Len(selectedText)] = ")"
          /\ mids # {}
       THEN SubSeq(selectedText, 2, (CHOOSE m \in mids : \A k \in mids : k <= m) - 1)
       ELSE NoMatch

\* the line applyInlineFormat leaves and the offset it puts the cursor at, for
\* the selection [from, to) of the line
ToggleInline(format, line, from, to) ==
    LET selectedText == SubSeq(line, from + 1, to)
        beforeSelection == Take(line, from)
        afterSelection == Drop(line, to)
        mark == FormatPrefix(format)
        inner == SubSeq(selectedText, Len(mark) + 1, Len(selectedText) - Len(mark))
        wrappedLink == <<"[">> \o selectedText \o <<"]", "(", "u", "r", "l", ")">>
    IN
    IF format = "link"
    THEN (IF LinkMatch(selectedText) # NoMatch
          THEN [line |-> beforeSelection \o LinkMatch(selectedText) \o afterSelection,
                offset |-> from + Len(LinkMatch(selectedText))]
          ELSE [line |-> beforeSelection \o wrappedLink \o afterSelection,
                offset |-> from + Len(wrappedLink)])
    ELSE IF EndsWith(beforeSelection, mark) /\ StartsWith(afterSelection, mark)
    THEN [line |-> Take(line, from - Len(mark)) \o selectedText \o Drop(line, to + Len(mark)),
          offset |-> from - Len(mark) + Len(selectedText)]
    ELSE IF /\ StartsWith(selectedText, mark)
            /\ EndsWith(selectedText, mark)
            /\ Len(selectedText) > 2 * Len(mark)
    THEN [line |-> beforeSelection \o inner \o afterSelection,
          offset |-> from + Len(inner)]
    ELSE [line |-> beforeSelection \o mark \o selectedText \o mark \o afterSelection,
          offset |-> from + Len(selectedText) + 2 * Len(mark)]

FORMATS == {"bold", "italic", "code", "strikethrough", "link"}

\* a toolbar button or a shortcut, with [from, to) of line lineIndex selected:
\* applyInlineFormat(format)
ApplyInlineFormat(format, lineIndex, from, to) ==
    /\ surface # <<>>
    /\ format \in FORMATS
    /\ lineIndex + 1 \in DOMAIN surface
    /\ 0 <= from /\ from < to /\ to <= Len(textContent(surface[lineIndex + 1].html))
    /\ LET markdown == extractMarkdown(surface)
           lines == Split(markdown)
           toggled == ToggleInline(format, lines[lineIndex + 1], from, to)
           newMarkdown == Join([lines EXCEPT ![lineIndex + 1] = toggled.line])
       IN Commit(newMarkdown, Position(lineIndex, toggled.offset),
                 Entry("applyInlineFormat", lineIndex, format, from, to, markdown, newMarkdown))

\* the user puts the caret at offset of the content of line lineIndex
MoveCursor(lineIndex, offset) ==
    /\ lineIndex + 1 \in DOMAIN surface
    /\ offset \in 0..Len(textContent(surface[lineIndex + 1].html))
    /\ cursor' = [lineIndex |-> lineIndex, offset |-> offset,
                  inText |-> textContent(surface[lineIndex + 1].html) # <<>>]
    /\ log' = Append(log, Entry("move", lineIndex, "", offset, offset, <<>>, <<>>))
    /\ UNCHANGED <<inbox, surface, isExternalUpdate, lastSentContent, timers, now,
                   outbox, toc, stored, host>>

\* the editor loses the focus: saveState
Blur ==
    /\ surface # <<>>
    /\ stored' = saveCursorPosition(surface, cursor)
    /\ log' = Append(log, Entry("blur", cursor.lineIndex, "", cursor.offset,
                                cursor.offset, <<>>, <<>>))
    /\ UNCHANGED <<inbox, surface, cursor, isExternalUpdate, lastSentContent, timers,
                   now, outbox, toc, host>>

\* the window has the focus again: the stored cursor position is restored
Focus ==
    /\ surface # <<>>
    /\ cursor' = IF stored # NoCursor
                  THEN restoreCursorPosition(surface, stored, cursor)
                  ELSE cursor
    /\ log' = Append(log, Entry("focus", stored.lineIndex, "", stored.offset,
                                stored.offset, <<>>, <<>>))
    /\ UNCHANGED <<inbox, surface, isExternalUpdate, lastSentContent, timers, now,
                   outbox, toc, stored, host>>

\* String.prototype.slice(0, n) and slice(n) for n >= 0
SliceTo(s, n) == Take(s, IF n <= Len(s) THEN n ELSE Len(s))
SliceFrom(s, n) == Drop(s, IF n <= Len(s) THEN n ELSE Len(s))

\* a keydown handler that leaves the editor as it is
KeyIgnored(entry) ==
    /\ log' = Append(log, entry)
    /\ UNCHANGED <<inbox, surface, cursor, isExternalUpdate, lastSentContent, timers,
                   now, outbox, toc, stored, host>>

\* keydown Enter without Shift: the line of the saved position is split at the
\* saved offset. The log keeps the caret (from) and the saved offset (to).
PressEnter ==
    /\ surface # <<>>
    /\ LET cursorPos == saveCursorPosition(surface, cursor)
           markdown == extractMarkdown(surface)
           lines == Split(markdown)
           i == cursorPos.lineIndex
           newLines == Take(lines, i) \o <<SliceTo(lines[i + 1], cursorPos.offset),
                                           SliceFrom(lines[i + 1], cursorPos.offset)>>
                           \o Drop(lines, i + 1)
       IN IF cursorPos = NoCursor
          THEN KeyIgnored(Entry("enter", -1, "ignored", 0, 0, markdown, markdown))
          ELSE Commit(Join(newLines), Position(i + 1, 0),
                      Entry("enter", cursor.lineIndex, "split", cursor.offset,
                            cursorPos.offset, markdown, Join(newLines)))

\* isAtLineStart of the Backspace handler
IsAtLineStart(cursorPos, lines) ==
    /\ cursorPos # NoCursor
    /\ \/ cursorPos.offset = 0
       \/ cursorPos.offset <= 1 /\ lines[cursorPos.lineIndex + 1] = <<>>

\* keydown Backspace: at the start of a line after the first, the line is
\* joined to the one before; anything else is left to the browser
PressBackspace ==
    /\ surface # <<>>
    /\ LET cursorPos == saveCursorPosition(surface, cursor)
           markdown == extractMarkdown(surface)
           lines == Split(markdown)
           i == cursorPos.lineIndex
           newLines == Take(lines, i - 1) \o <<lines[i] \o lines[i + 1]>> \o Drop(lines, i + 1)
       IN IF IsAtLineStart(cursorPos, lines) /\ i > 0
          THEN Commit(Join(newLines), Position(i - 1, Len(lines[i])),
                      Entry("backspace", cursor.lineIndex, "merge", cursor.offset,
                            cursorPos.offset, markdown, Join(newLines)))
          ELSE KeyIgnored(Entry("backspace", cursor.lineIndex, "browser", cursor.offset,
                                cursorPos.offset, markdown, markdown))

\* keydown Delete: at the end of a line before the last, the next line is
\* joined to it; anything else is left to the browser
PressDelete ==
    /\ surface # <<>>
    /\ LET cursorPos == saveCursorPosition(surface, cursor)
           markdown == extractMarkdown(surface)
           lines == Split(markdown)
           i == cursorPos.lineIndex
           newLines == Take(lines, i) \o <<lines[i + 1] \o lines[i + 2]>> \o Drop(lines, i + 2)
       IN IF cursorPos # NoCursor /\ i < Len(lines) - 1 /\ cursorPos.offset >= Len(lines[i + 1])
          THEN Commit(Join(newLines), cursorPos,
                      Entry("delete", cursor.lineIndex, "merge", cursor.offset,
                            cursorPos.offset, markdown, Join(newLines)))
          ELSE KeyIgnored(Entry("delete", cursor.lineIndex, "browser", cursor.offset,
                                cursorPos.offset, markdown, markdown))

\* the paste handler, for the text/plain of the clipboard: the text is put in
\* at the saved offset of the line of the saved position, or at the end of the
\* markdown where there is no position
Paste(text) ==
    /\ surface # <<>>
    /\ LET cursorPos == saveCursorPosition(surface, cursor)
           currentMarkdown == extractMarkdown(surface)
           lines == Split(currentMarkdown)
           i == cursorPos.lineIndex
           beforeCursor == SliceTo(lines[i + 1], cursorPos.offset)
           afterCursor == SliceFrom(lines[i + 1], cursorPos.offset)
           pastedLines == Split(text)
           count == Len(pastedLines)
           newLines == Take(lines, i)
                           \o (IF count = 1 THEN <<beforeCursor \o text \o afterCursor>>
                               ELSE <<beforeCursor \o pastedLines[1]>>
                                        \o SubSeq(pastedLines, 2, count - 1)
                                        \o <<pastedLines[count] \o afterCursor>>)
                           \o Drop(lines, i + 1)
           newMarkdown == IF cursorPos = NoCursor THEN currentMarkdown \o text
                          ELSE Join(newLines)
           newPos == IF cursorPos = NoCursor THEN NoCursor
                     ELSE IF count = 1 THEN Position(i, cursorPos.offset + Len(text))
                     ELSE Position(i + count - 1, Len(pastedLines[count]))
       IN IF text = <<>>
          THEN KeyIgnored(Entry("paste", cursor.lineIndex, "empty", cursor.offset,
                                cursor.offset, currentMarkdown, currentMarkdown))
          ELSE Commit(newMarkdown, newPos,
                      Entry("paste", cursor.lineIndex, "text", cursor.offset,
                            IF cursorPos = NoCursor THEN 0 ELSE cursorPos.offset,
                            currentMarkdown, newMarkdown))

\* the tags that open a span
SPANS ==
    TAGS \ {END, "<strong>", "</strong>", "<em>", "</em>", "<code>", "</code>",
            "<del>", "</del>", "<br>"}

\* where a span closes that is open at token i of html, depth spans deep
RECURSIVE SpanEnd(_, _, _)
SpanEnd(html, i, depth) ==
    IF i > Len(html) THEN Len(html) + 1
    ELSE IF html[i] = END
    THEN IF depth = 1 THEN i ELSE SpanEnd(html, i + 1, depth - 1)
    ELSE IF html[i] \in SPANS
    THEN SpanEnd(html, i + 1, depth + 1)
    ELSE SpanEnd(html, i + 1, depth)

\* linkSpan.querySelector('.md-url').textContent of the span that opens at
\* token i, the empty text where it has no such span
UrlOfSpan(html, i) ==
    LET last == SpanEnd(html, i + 1, 1)
        urls == {j \in i..last : html[j] = "<span.md-url>"}
    IN IF urls = {} THEN <<>>
       ELSE textContent(SubSeq(html, Min(urls) + 1, SpanEnd(html, Min(urls) + 1, 1) - 1))

\* a click with Cmd or Ctrl held, inside the link or image span that opens at
\* token i of a line
ClickLink(lineIndex, i) ==
    /\ lineIndex + 1 \in DOMAIN surface
    /\ i \in DOMAIN surface[lineIndex + 1].html
    /\ surface[lineIndex + 1].html[i] \in {"<span.md-link>", "<span.md-image>"}
    /\ LET url == UrlOfSpan(surface[lineIndex + 1].html, i) IN
       outbox' = IF url # <<>> THEN Append(outbox, [type |-> "openLink", url |-> url])
                 ELSE outbox
    /\ UNCHANGED <<inbox, surface, cursor, isExternalUpdate, lastSentContent, timers,
                   now, toc, log, stored, host>>

\* the callback of a timer of sendEdit runs
TimerFire ==
    \E t \in timers :
        /\ now >= t.deadline
        /\ timers' = timers \ {t}
        /\ IF t.markdown = lastSentContent
           THEN UNCHANGED <<lastSentContent, outbox, log>>
           ELSE /\ lastSentContent' = t.markdown
                /\ outbox' = Append(outbox, [type |-> "edit", content |-> t.markdown])
                /\ log' = Append(log, Entry("post", 0, "edit", 0, 0, <<>>, t.markdown))
        /\ UNCHANGED <<inbox, surface, cursor, isExternalUpdate, now, toc, stored, host>>

\* time passes
Tick(step, limit) ==
    /\ now + step <= limit
    /\ now' = now + step
    /\ UNCHANGED <<inbox, surface, cursor, isExternalUpdate, lastSentContent, timers,
                   outbox, toc, log, stored, host>>

----------------------------------------------------------------------------
(* The host: the custom text editor provider *)

\* the onDidChangeTextDocument handler, run with the document text current:
\* what it leaves of lastKnownContent, and whether it posts an 'update'
changeHandler(currentContent, known, applyingEdit) ==
    IF applyingEdit \/ currentContent = known
    THEN [lastKnownContent |-> known, update |-> FALSE]
    ELSE [lastKnownContent |-> currentContent, update |-> TRUE]

\* the document has changed to content: the text, and the change handler
DocumentChange(content) ==
    LET h == changeHandler(content, lastKnownContent, isApplyingEdit) IN
    /\ document' = content
    /\ lastKnownContent' = h.lastKnownContent
    /\ inbox' = IF h.update
                THEN Append(inbox, [type |-> "update", content |-> content])
                ELSE inbox

\* another editor, or source control, changes the document
ExternalChange(content) ==
    /\ content # document
    /\ DocumentChange(content)
    /\ log' = Append(log, Entry("change", 0, "", 0, 0, document, content))
    /\ UNCHANGED <<surface, cursor, isExternalUpdate, lastSentContent, timers, now,
                   outbox, toc, stored, isApplyingEdit, applying>>

\* the 'edit' message of the webview, up to the await of workspace.applyEdit
HostReceiveEdit ==
    /\ outbox # <<>>
    /\ outbox[1].type = "edit"
    /\ outbox' = Tail(outbox)
    /\ IF outbox[1].content = document
       THEN UNCHANGED host
       ELSE /\ isApplyingEdit' = TRUE
            /\ lastKnownContent' = outbox[1].content
            /\ applying' = Append(applying, [content |-> outbox[1].content,
                                             applied |-> FALSE])
            /\ UNCHANGED document
    /\ UNCHANGED <<inbox, surface, cursor, isExternalUpdate, lastSentContent, timers,
                   now, toc, log, stored>>

\* the workspace applies the oldest edit not yet applied: the whole text is
\* replaced, and the change event reaches the change handler
HostApplyEdit ==
    \E k \in DOMAIN applying :
        /\ ~applying[k].applied
        /\ \A j \in 1..(k - 1) : applying[j].applied
        /\ applying' = [applying EXCEPT ![k].applied = TRUE]
        /\ IF applying[k].content = document
           THEN UNCHANGED <<document, lastKnownContent, inbox>>
           ELSE DocumentChange(applying[k].content)
        /\ UNCHANGED <<surface, cursor, isExternalUpdate, lastSentContent, timers,
                       now, outbox, toc, log, stored, isApplyingEdit>>

\* workspace.applyEdit returns to the 'edit' handler: its finally
HostEditDone ==
    /\ applying # <<>>
    /\ applying[1].applied
    /\ applying' = Tail(applying)
    /\ isApplyingEdit' = FALSE
    /\ UNCHANGED <<inbox, surface, cursor, isExternalUpdate, lastSentContent, timers,
                   now, outbox, toc, log, stored, document, lastKnownContent>>

\* the directory of the document, path.dirname(document.uri.fsPath)
documentDirPath == <<"/", "d", "/", "e">>

\* the segments of a path with . and empty segments dropped and .. resolved
RECURSIVE NormalizeSegments(_, _)
NormalizeSegments(segments, kept) ==
    IF segments = <<>> THEN kept
    ELSE IF segments[1] \in {<<>>, <<".">>} THEN NormalizeSegments(Tail(segments), kept)
    ELSE IF segments[1] = <<".", ".">>
    THEN NormalizeSegments(Tail(segments), Take(kept, Len(kept) - 1))
    ELSE NormalizeSegments(Tail(segments), Append(kept, segments[1]))

RECURSIVE PathOf(_)
PathOf(segments) ==
    IF segments = <<>> THEN <<>> ELSE <<"/">> \o segments[1] \o PathOf(Tail(segments))

\* path.resolve(from, to) of Node on POSIX paths, from absolute
pathResolve(from, to) ==
    LET joined == IF StartsWith(to, <<"/">>) THEN to ELSE from \o <<"/">> \o to
        segments == NormalizeSegments(SplitOn(joined, "/"), <<>>)
    IN IF segments = <<>> THEN <<"/">> ELSE PathOf(segments)

\* /^https?:\/\//i
IsWebUrl(url) ==
    \/ StartsWith(ToLower(url), <<"h", "t", "t", "p", ":", "/", "/">>)
    \/ StartsWith(ToLower(url), <<"h", "t", "t", "p", "s", ":", "/", "/">>)

WEBVIEW_SCHEME ==
    <<"v", "s", "c", "o", "d", "e", "-", "w", "e", "b", "v", "i", "e", "w", ":", "/", "/">>

\* the 'openLink' case: what is called, and with the URI of which address
openLink(url) ==
    IF IsWebUrl(url) THEN [call |-> "openExternal(Uri.parse)", address |-> url]
    ELSE IF StartsWith(url, WEBVIEW_SCHEME) THEN [call |-> "", address |-> <<>>]
    ELSE [call |-> IF EndsWith(url, <<".", "m", "d">>) THEN "showTextDocument(Uri.file)"
                   ELSE "openExternal(Uri.file)",
          address |-> pathResolve(documentDirPath, url)]

\* the 'openLink' message of the webview
HostOpenLink ==
    /\ outbox # <<>>
    /\ outbox[1].type = "openLink"
    /\ outbox' = Tail(outbox)
    /\ LET opened == openLink(outbox[1].url) IN
       log' = Append(log, Entry("openLink", 0, opened.call, 0, 0, outbox[1].url,
                                opened.address))
    /\ UNCHANGED <<inbox, surface, cursor, isExternalUpdate, lastSentContent, timers,
                   now, toc, stored, host>>

----------------------------------------------------------------------------
(* Bounds and inputs *)

MaxLines == 3       \* lines of a document
MaxTail == 1        \* characters of a line after its leading markers
MaxHashes == 7      \* hashes at the start of a line
MaxText == 3        \* characters of a line that inline formats are toggled on
MaxOps == 2         \* handlers run after the start, when time passes
MaxTime == 900      \* the clock stops there
MaxChanges == 2     \* changes of the document by others than the webview
MaxTyped == 2       \* characters typed while the host is watched
MaxEchoWait == 600  \* the clock stops there while two edits are on their way
MaxWait == 300      \* the clock stops there while the host is watched
MaxClicks == 2      \* clicks on links
MaxTokens == 12     \* tokens of a line up to where its link opens
MaxKeys == 2        \* presses of Enter, Backspace and Delete
MaxKeyOffset == 4   \* the caret is put at most that far into a line
MaxGuardOps == 3    \* handlers run while the guard is watched
MaxSpans == 3       \* spans of emphasis and words of a line
MaxInline == 6      \* characters of a text of markers and letters
MaxMoves == 1       \* times the user puts the caret somewhere
MaxSteps == 3       \* blurs, focuses and changes by others while the caret is watched
TickMs == 150       \* the step of the clock

\* the editor is set up, the host has answered 'ready' with sendDocument, and
\* its 'init' message is on its way
InitWith(contents) ==
    /\ \E content \in contents :
           /\ inbox = <<[type |-> "init", content |-> content]>>
           /\ document = content
           /\ lastKnownContent = content
    /\ isApplyingEdit = FALSE
    /\ applying = <<>>
    /\ stored = NoCursor
    /\ surface = <<>>
    /\ cursor = NoCursor
    /\ isExternalUpdate = FALSE
    /\ lastSentContent = <<>>
    /\ timers = {}
    /\ now = 0
    /\ outbox = <<>>
    /\ toc = <<>>
    /\ log = <<>>

\* the sequences over S of length at most n
RECURSIVE SeqsUpTo(_, _)
SeqsUpTo(S, n) ==
    IF n = 0 THEN {<<>>}
    ELSE LET shorter == SeqsUpTo(S, n - 1)
         IN shorter \cup {Append(t, x) : t \in shorter, x \in S}

\* n hashes
Hashes(n) == [k \in 1..n |-> HASH]

\* the handlers that end in sendEdit
EDIT_OPS == {"input", "applyLineType", "applyInlineFormat"}

Edits == {k \in DOMAIN log : log[k].op \in EDIT_OPS}

Ready == surface # <<>>

\* the last handler that ran
Last == log[Len(log)]

----------------------------------------------------------------------------
(* Rendering: documents of a few lines of every shape *)

RenderLines ==
    { <<>>, <<"a">>, <<"a", " ">>, <<"#", " ", "a">>, <<"-", " ", "a">>,
      <<GT, "a">>, <<GT, " ", "a">>, <<GT>>,
      <<GT, " ", "[", "!", "N", "O", "T", "E", "]">>,
      <<GT, "[", "!", "t", "i", "p", "]">>,
      FENCE, FENCE \o <<"j">>, FENCE \o <<" ", "j">> }

RenderDocs == {Join(ls) : ls \in SeqsUpTo(RenderLines, MaxLines) \ {<<>>}}

InitRender == InitWith(RenderDocs)

NextRender == ReceiveInit

SpecRender == InitRender /\ [][NextRender]_vars

\* the markdown the surface was last rendered from
Shown ==
    log[CHOOSE k \in DOMAIN log :
            /\ log[k].op # "post"
            /\ \A j \in DOMAIN log : j > k => log[j].op = "post"].after

\* a document with the trailing whitespace of every line removed
NormalizeTrailing(markdown) ==
    LET lines == Split(markdown)
    IN Join([i \in DOMAIN lines |-> TrimEnd(lines[i])])

\* C1: for every document D, the markdown extracted from the rendered surface
\* is D, up to the whitespace at the end of the lines. (The code does not keep
\* it: a line >a comes back as > a.)
C1_RoundTrip ==
    Ready => NormalizeTrailing(extractMarkdown(surface)) = NormalizeTrailing(Shown)

IsFence(line) == StartsWith(line, FENCE)

\* line i lies after an opening fence line that no later fence line closed
InsideFence(lines, i) ==
    Cardinality({k \in 1..(i - 1) : IsFence(lines[k])}) % 2 = 1

\* the markup of a block carries no styling at all
Unstyled(html) ==
    /\ html[1] = "<span.code-inner>"
    /\ html[Len(html)] = END
    /\ \A t \in 2..(Len(html) - 1) : html[t] \notin (TAGS \ {"<br>"})

\* C2: a line that starts with three backticks toggles the in-fence state, and
\* every line between an opening fence line and the next fence line is code
\* content whatever its text: it carries no styling, it is no blockquote and no
\* alert, and it has no line-type button.
C2_FenceContent ==
    Ready =>
        LET lines == Split(Shown) IN
        \A i \in DOMAIN lines :
            LET block == surface[i] IN
            /\ IsFence(lines[i]) =>
                   block.cls = (IF InsideFence(lines, i) THEN "code-fence code-end"
                                ELSE "code-fence code-start")
            /\ (~IsFence(lines[i]) /\ InsideFence(lines, i)) =>
                   /\ block.cls \in {"code-content", "code-content empty-line"}
                   /\ Unstyled(block.html)
                   /\ textContent(block.html) = lines[i]
                   /\ block.alertType = NoAlert
                   /\ block.prefix.button = "disabled"
            /\ (~IsFence(lines[i]) /\ ~InsideFence(lines, i)) =>
                   /\ block.cls \notin {"code-content", "code-content empty-line"}
                   /\ block.prefix.button = "enabled"

\* a heading line and an alert header between two fence lines
C2_HeadingInsideFence ==
    /\ Ready
    /\ LET lines == Split(Shown) IN
       /\ Len(lines) = 3
       /\ IsFence(lines[1]) /\ IsFence(lines[3])
       /\ getLineType(lines[2]) \in {"h1", "alert"}

IsAlertHeader(line) == AlertMatch(line, TRUE) # NoMatch

\* line k follows the alert header line i with only lines that start with >
\* (and, when stopAtHeader, are no alert headers) from i + 1 to k
InAlertRun(lines, i, k, stopAtHeader) ==
    /\ i < k
    /\ IsAlertHeader(lines[i])
    /\ ~InsideFence(lines, i)
    /\ \A j \in (i + 1)..k :
           /\ StartsWith(lines[j], <<GT>>)
           /\ stopAtHeader => ~IsAlertHeader(lines[j])

IsContinuation(block) == block.cls = "md-alert-content"

\* C3 as stated: after an alert header of type T, every directly following line
\* that matches >\s? is an alert continuation of type T up to the first line
\* that fails the pattern, and from there on no line is a continuation until a
\* new header.
C3_ContinuationAsStated ==
    Ready =>
        LET lines == Split(Shown) IN
        /\ \A i, k \in DOMAIN lines :
               InAlertRun(lines, i, k, FALSE) =>
                   /\ IsContinuation(surface[k])
                   /\ surface[k].alertType = ToLower(AlertMatch(lines[i], TRUE))
        /\ \A k \in DOMAIN lines :
               IsContinuation(surface[k]) =>
                   \E i \in DOMAIN lines : InAlertRun(lines, i, k, FALSE)

\* C3: after an alert header of type T outside a code fence, every directly
\* following line that matches >\s? and is no alert header itself is an alert
\* continuation of type T, up to the first line that fails the pattern or is an
\* alert header; no other line is an alert continuation.
C3_Continuation ==
    Ready =>
        LET lines == Split(Shown) IN
        /\ \A i, k \in DOMAIN lines :
               InAlertRun(lines, i, k, TRUE) =>
                   /\ IsContinuation(surface[k])
                   /\ surface[k].alertType = ToLower(AlertMatch(lines[i], TRUE))
        /\ \A k \in DOMAIN lines :
               IsContinuation(surface[k]) =>
                   \E i \in DOMAIN lines : InAlertRun(lines, i, k, TRUE)

\* an alert header, a line that does not start with >, and a line that does
C3_RunEnded ==
    /\ Ready
    /\ LET lines == Split(Shown) IN
       /\ Len(lines) = 3
       /\ IsAlertHeader(lines[1])
       /\ ~StartsWith(lines[2], <<GT>>) /\ ~IsFence(lines[2])
       /\ StartsWith(lines[3], <<GT>>) /\ ~IsAlertHeader(lines[3])
       /\ surface[3].cls = "blockquote-line"

----------------------------------------------------------------------------
(* Line types: one line of every shape, alone or between two other lines *)

Heads ==
    {<<>>}
    \cup {Hashes(n) \o sp : n \in 1..MaxHashes, sp \in {<<>>, <<" ">>}}
    \cup {<<"#", "\t">>}
    \cup {<<m, " ">> : m \in LIST_MARKERS}
    \cup {<<"-", " ", "[", b, "]", " ">> : b \in BOX_CHARS}
    \cup {<<"*", " ", "[", " ", "]", " ">>, <<"-", " ", "[", " ", "]">>}
    \cup {<<"1", ".", " ">>, <<"1", "2", ".", " ">>, <<"1", ".">>}
    \cup {<<GT>>, <<GT, " ">>, <<GT, GT, " ">>}
    \cup {<<GT, " ", "[", "!", "N", "O", "T", "E", "]">>,
          <<GT, " ", "[", "!", "T", "I", "P", "]">>,
          <<GT, "[", "!", "n", "o", "t", "e", "]">>}
    \cup {FENCE, FENCE \o <<"j">>}
    \cup {<<"-", "-", "-">>, <<"*", "*", "*">>}

InnerHeads ==
    { <<>>, <<"#", " ">>, <<"-", " ">>, <<"[", " ", "]", " ">>, <<"[", "x", "]", " ">>,
      <<"1", ".", " ">>, <<GT, " ">>, FENCE, <<"-", "-", "-">> }

Tails == SeqsUpTo({"a", " "}, MaxTail)

TypedLines == {h \o g \o t : h \in Heads, g \in InnerHeads, t \in Tails}

\* a line of one marker between two other lines
FramedLines == {<<"x", NL>> \o h \o t \o <<NL, "y">> : h \in Heads, t \in Tails}

\* a line under an opening fence
FencedLines == {FENCE \o <<NL>> \o line : line \in {<<"a">>, <<GT, "a">>, <<"#", " ", "a">>}}

TypedDocs == TypedLines \cup FramedLines \cup FencedLines

InitLineType == InitWith(TypedDocs)

\* the menu is used once
NextLineType ==
    \/ ReceiveInit
    \/ /\ Edits = {}
       /\ \E lineIndex \in 0..(MaxLines - 1), type \in MENU_LINE_TYPES :
              ApplyLineType(lineIndex, type)

SpecLineType == InitLineType /\ [][NextLineType]_vars

\* the line-type menu was the last thing used
Applied == Ready /\ Last.op = "applyLineType"

\* the line the menu was opened on, and what stands in its place
OldLine == Split(Last.before)[Last.lineIndex + 1]
NewLine == Split(Last.after)[Last.lineIndex + 1]

\* marker, space, box, space, text
TaskForm(line) ==
    /\ Len(line) >= 6
    /\ line[1] \in LIST_MARKERS /\ line[2] = " "
    /\ line[3] = "[" /\ line[4] \in BOX_CHARS /\ line[5] = "]" /\ line[6] = " "

\* > [!TYPE]
AlertForm(line) == \E n \in ALERT_NAMES : line = <<GT, " ", "[", "!">> \o n \o <<"]">>

\* C4: the more specific pattern wins: a line - [ ] x (marker -, * or +, box
\* [ ], [x] or [X]) is a task and never a bullet, and an alert header line
\* > [!TYPE] is an alert and never a plain blockquote, for getLineType and for
\* styleLine, and so on the surface.
C4_SpecificFirst ==
    Ready =>
        LET lines == Split(Shown) IN
        \A i \in DOMAIN lines :
            LET line == lines[i]
                shown == ~InsideFence(lines, i)
            IN
            /\ TaskForm(line) =>
                   /\ getLineType(line) = "task"
                   /\ styleLine(line).kind = "task"
                   /\ shown => surface[i].prefix.icon = "task" /\ surface[i].kind = "task"
            /\ AlertForm(line) =>
                   /\ getLineType(line) = "alert"
                   /\ styleLine(line).kind = "alert"
                   /\ shown => surface[i].prefix.icon = "alert" /\ surface[i].cls = "md-alert"

\* a task line with a checked box on the surface
C4_TaskShown ==
    /\ Ready
    /\ Shown = <<"-", " ", "[", "x", "]", " ", "a">>
    /\ surface[1].prefix.icon = "task"

HeadingType(level) == <<"h1", "h2", "h3", "h4", "h5", "h6">>[level]

\* C5: a line of L hashes, one whitespace character and any text, 1 <= L <= 6,
\* is a heading of level L (type hL); a line that starts with seven or more
\* hashes, or with hashes that no whitespace follows, is a paragraph.
C5_HeadingLevel ==
    Ready =>
        LET lines == Split(Shown) IN
        \A i \in DOMAIN lines :
            LET line == lines[i]
                hashes == Run(line, {HASH})
                spaced == Len(line) > hashes /\ line[hashes + 1] \in WS
                shown == ~InsideFence(lines, i)
            IN
            /\ (hashes >= 1 /\ hashes <= 6 /\ spaced) =>
                   /\ getLineType(line) = HeadingType(hashes)
                   /\ styleLine(line).kind = "heading" /\ styleLine(line).level = hashes
                   /\ shown => /\ surface[i].prefix.icon = HeadingType(hashes)
                               /\ surface[i].kind = "heading"
                               /\ surface[i].level = hashes
            /\ (hashes >= 7 \/ (hashes >= 1 /\ ~spaced)) =>
                   /\ getLineType(line) = "paragraph"
                   /\ styleLine(line).kind = "paragraph"
                   /\ shown => /\ surface[i].prefix.icon = "paragraph"
                               /\ surface[i].kind = "paragraph"

\* a heading of the deepest level on the surface
C5_LevelSix ==
    /\ Ready
    /\ Shown = Hashes(6) \o <<" ", "a">>
    /\ surface[1].kind = "heading" /\ surface[1].level = 6

\* the types whose marker is told by the pattern of the type alone
PLAIN_TYPES == {"paragraph", "h1", "h2", "h3", "h4", "h5", "h6", "ul", "ol"}

\* the length of the one leading marker of a line of a plain type
MarkerLength(line) ==
    LET type == getLineType(line) IN
    IF type = "paragraph" THEN 0
    ELSE IF type = "ul" THEN 2
    ELSE IF type = "ol" THEN Run(line, DIGITS) + 2
    ELSE Run(line, {HASH}) + 1

\* C6: what applyLineType removes from a line is the one leading marker of
\* the type the classifier gives the line, and nothing more, and the new type's
\* marker is then put in front. (The code runs its seven replaces one after
\* the other: of # - a it removes both # and -.)
C6_StripsOneMarker ==
    (Applied /\ getLineType(OldLine) \in PLAIN_TYPES) =>
        Split(Last.after) =
            Take(Split(Last.before), Last.lineIndex)
                \o Split(applyLinePrefix(Drop(OldLine, MarkerLength(OldLine)), Last.type))
                \o Drop(Split(Last.before), Last.lineIndex + 1)

\* C7: applyLineType(i, 'code') puts three lines in the place of line i, an
\* opening fence, the line without its marker, and a closing fence, and leaves
\* the lines before and after as they are. (The middle line is what the seven
\* replaces leave: of # - a it is a, not - a.)
C7_CodeBlock ==
    (Applied /\ Last.type = "code" /\ getLineType(OldLine) \in PLAIN_TYPES) =>
        Split(Last.after) =
            Take(Split(Last.before), Last.lineIndex)
                \o <<FENCE, Drop(OldLine, MarkerLength(OldLine)), FENCE>>
                \o Drop(Split(Last.before), Last.lineIndex + 1)

\* what does hold of applyLineType(i, 'code'): two fence lines around one line,
\* two lines more, and the lines before and after as they were
C7_CodeBlockFrame ==
    (Applied /\ Last.type = "code") =>
        LET old == Split(Last.before)
            new == Split(Last.after)
            i == Last.lineIndex
        IN /\ Len(new) = Len(old) + 2
           /\ Take(new, i) = Take(old, i)
           /\ new[i + 1] = FENCE /\ new[i + 3] = FENCE
           /\ Drop(new, i + 3) = Drop(old, i + 1)

ROUND_TRIP_TYPES == {"h1", "h2", "h3", "h4", "h5", "h6", "ul", "ol", "task", "quote"}

\* [ ], [x] or [X] and a whitespace character at the start
CheckboxStart(content) ==
    /\ Len(content) >= 4
    /\ content[1] = "[" /\ content[2] \in BOX_CHARS /\ content[3] = "]"
    /\ content[4] \in WS

\* the round trip of a paragraph content through the types: applying a type to
\* the content puts the type's marker in front of it, and applying paragraph to
\* that line gives the content back, except for the pairs left out
RoundTrip(excluded(_, _)) ==
    /\ (Applied /\ Last.type \in ROUND_TRIP_TYPES /\ getLineType(OldLine) = "paragraph") =>
           NewLine = applyLinePrefix(<<>>, Last.type) \o OldLine
    /\ (Applied /\ Last.type = "paragraph") =>
           \A type \in ROUND_TRIP_TYPES :
               LET marker == applyLinePrefix(<<>>, type)
                   content == Drop(OldLine, Len(marker))
               IN (/\ StartsWith(OldLine, marker)
                   /\ getLineType(content) = "paragraph"
                   /\ ~excluded(type, content)) => NewLine = content

NoPair(type, content) == FALSE

CheckboxInBullet(type, content) == type = "ul" /\ CheckboxStart(content)

\* C8 as stated: for every content that is a paragraph and every type among
\* h1..h6, ul, ol, task and quote, the marker of the type put in front of the
\* content and then stripped gives the content back.
C8_RoundTripAsStated == RoundTrip(NoPair)

\* C8: for every content that is a paragraph and every type among h1..h6, ul,
\* ol, task and quote, the marker of the type put in front of the content and
\* then stripped gives the content back, unless the type is ul and the content
\* starts with a checkbox and a whitespace character.
C8_RoundTrip == RoundTrip(CheckboxInBullet)

\* the quote marker taken off a content that starts with a space
C8_QuoteStripped ==
    /\ Applied
    /\ Last.type = "paragraph"
    /\ OldLine = <<GT, " ", " ">>
    /\ NewLine = <<" ">>

----------------------------------------------------------------------------
(* Inline formats: one short line, a format toggled on it and toggled again *)

FormatLines == SeqsUpTo({"a", " ", TICK}, MaxText) \ {<<>>}

InitFormat == InitWith(FormatLines)

\* the offsets a selection of the first line can have
Offsets == IF Ready THEN 0..Len(textContent(surface[1].html)) ELSE {}

\* a format is toggled, and the same format is toggled once more
NextFormat ==
    \/ ReceiveInit
    \/ /\ Edits = {}
       /\ \E format \in FORMATS, from, to \in Offsets :
              ApplyInlineFormat(format, 0, from, to)
    \/ /\ Cardinality(Edits) = 1
       /\ \E from, to \in Offsets : ApplyInlineFormat(Last.type, 0, from, to)

SpecFormat == InitFormat /\ [][NextFormat]_vars

MARKED_FORMATS == {"bold", "italic", "code", "strikethrough"}

\* the selection [from, to) of the line has the markers of the format around
\* it, or at both of its ends
Marked(format, line, from, to) ==
    LET mark == FormatPrefix(format)
        selectedText == SubSeq(line, from + 1, to)
    IN \/ EndsWith(Take(line, from), mark) /\ StartsWith(Drop(line, to), mark)
       \/ /\ StartsWith(selectedText, mark)
          /\ EndsWith(selectedText, mark)
          /\ Len(selectedText) > 2 * Len(mark)

\* the line with the markers of the format around the selection [from, to)
Wrapped(format, line, from, to) ==
    Take(line, from) \o FormatPrefix(format) \o SubSeq(line, from + 1, to)
        \o FormatPrefix(format) \o Drop(line, to)

\* C9: toggling bold, italic, code or strikethrough is an involution on the
\* line: on a selection that has not the markers of the format around it, the
\* toggle puts the markers around the selection, and a second toggle on the
\* wrapped text, selected without or with its markers, gives the line back.
\* (The render between the two toggles can change the line: the backtick of
\* the line of a backtick, a space and x, toggled code, opens a fence line.)
C9_ToggleTwice ==
    /\ (Ready /\ Len(log) >= 2 /\ log[2].op = "applyInlineFormat"
              /\ log[2].type \in MARKED_FORMATS
              /\ ~Marked(log[2].type, log[2].before, log[2].from, log[2].to)) =>
           log[2].after = Wrapped(log[2].type, log[2].before, log[2].from, log[2].to)
    /\ (Ready /\ Len(log) = 3 /\ log[3].op = "applyInlineFormat"
              /\ log[2].type \in MARKED_FORMATS
              /\ ~Marked(log[2].type, log[2].before, log[2].from, log[2].to)) =>
           LET size == Len(FormatPrefix(log[2].type))
               selected == <<log[3].from, log[3].to>>
           IN (/\ log[3].before = log[2].after
               /\ selected \in {<<log[2].from + size, log[2].to + size>>,
                                <<log[2].from, log[2].to + 2 * size>>}) =>
                  log[3].after = log[2].before
    /\ (Ready /\ Len(log) = 3 /\ log[3].op = "applyInlineFormat"
              /\ log[2].type \in MARKED_FORMATS
              /\ ~Marked(log[2].type, log[2].before, log[2].from, log[2].to)) =>
           log[3].before = log[2].after

\* what does hold: on the text alone, with no render between the two toggles,
\* the second toggle gives the line back
C9_ToggleTwiceOnText ==
    (Ready /\ Len(log) = 2 /\ Last.op = "applyInlineFormat"
           /\ Last.type \in MARKED_FORMATS
           /\ ~Marked(Last.type, Last.before, Last.from, Last.to)) =>
        LET size == Len(FormatPrefix(Last.type)) IN
        /\ Last.after = Wrapped(Last.type, Last.before, Last.from, Last.to)
        /\ ToggleInline(Last.type, Last.after, Last.from + size, Last.to + size).line
               = Last.before
        /\ ToggleInline(Last.type, Last.after, Last.from, Last.to + 2 * size).line
               = Last.before

----------------------------------------------------------------------------
(* The editor over time: a few edits of a small document, the clock, the timer *)

Docs == {<<"a">>, <<"#", " ", "a", NL, "b">>}

Init == InitWith(Docs)

MayEdit == Ready /\ Cardinality(Edits) < MaxOps

Next ==
    \/ ReceiveInit
    \/ MayEdit /\ TypeChar("a")
    \/ MayEdit /\ \E type \in {"paragraph", "h1"} : ApplyLineType(0, type)
    \/ MayEdit /\ ApplyInlineFormat("bold", 0, 0, Len(textContent(surface[1].html)))
    \/ TimerFire
    \/ Tick(TickMs, MaxTime)

Spec == Init /\ [][Next]_vars

IsEdit(k) == log[k].op \in EDIT_OPS
IsPost(k) == log[k].op = "post"

\* edit j is the last edit before entry k of the history
LastEditBefore(j, k) ==
    /\ j < k
    /\ IsEdit(j)
    /\ \A m \in (j + 1)..(k - 1) : ~IsEdit(m)

\* C10: edit notifications are coalesced: while each edit follows the one
\* before in less than the quiet period of 300 ms no 'edit' message is posted;
\* a message is posted only when the quiet period has passed since the last
\* edit, it carries the content of that edit, and no second one follows it
\* before the next edit.
C10_Coalesced ==
    /\ \A j, k \in DOMAIN log :
           (LastEditBefore(j, k) /\ IsEdit(k) /\ log[k].at - log[j].at < EDIT_DEBOUNCE_MS) =>
               \A m \in (j + 1)..(k - 1) : ~IsPost(m)
    /\ \A p \in DOMAIN log :
           IsPost(p) =>
               \E j \in DOMAIN log :
                   /\ LastEditBefore(j, p)
                   /\ log[p].at - log[j].at >= EDIT_DEBOUNCE_MS
                   /\ log[p].after = log[j].after
                   /\ \A m \in (j + 1)..(p - 1) : ~IsPost(m)
    /\ Len(outbox) = Cardinality({p \in DOMAIN log : IsPost(p)})

\* two edits less than the quiet period apart, and then the one message
C10_BurstPosted ==
    \E j, k, p \in DOMAIN log :
        /\ LastEditBefore(j, k) /\ IsEdit(k)
        /\ log[k].at - log[j].at < EDIT_DEBOUNCE_MS
        /\ log[j].after # log[k].after
        /\ LastEditBefore(k, p) /\ IsPost(p)
        /\ outbox[Len(outbox)].content = log[k].after

----------------------------------------------------------------------------
(* The editor and the host: local edits, external changes, messages both ways *)

SyncDocs == {<<>>, <<"a">>}

\* what another editor may leave in the document
ExternalContents == {<<"a">>, <<"b">>}

Changes == {k \in DOMAIN log : log[k].op = "change"}

InitSync == InitWith(SyncDocs)

NextSync ==
    \/ ReceiveInit
    \/ \E fired \in BOOLEAN : ReceiveUpdate(fired)
    \/ Ready /\ Cardinality(Edits) < MaxTyped /\ TypeChar("a")
    \/ TimerFire
    \/ Tick(EDIT_DEBOUNCE_MS, MaxWait)
    \/ Cardinality(Changes) < MaxChanges /\ \E content \in ExternalContents :
                                                ExternalChange(content)
    \/ HostReceiveEdit
    \/ HostApplyEdit
    \/ HostEditDone

SpecSync == InitSync /\ [][NextSync]_vars

\* the webview takes an 'update' message from its inbox
UpdateStep == inbox # <<>> /\ inbox[1].type = "update" /\ inbox' = Tail(inbox)

\* the last content the editor posted to the host, if it has posted any
LastProduced ==
    LET posts == {k \in DOMAIN log : IsPost(k)} IN
    IF posts = {} THEN NoMatch
    ELSE log[CHOOSE k \in posts : \A j \in posts : j <= k].after

\* the update is skipped: nothing of the editor changes
UpdateSkipped == UNCHANGED <<surface, cursor, lastSentContent, timers, toc, outbox>>

\* the update is applied: the surface shows the incoming content, which is
\* recorded as the last known content
UpdateApplied ==
    /\ surface' = markdownToStyledHtml(inbox[1].content)
    /\ toc' = updateTocFromMarkdown(inbox[1].content)
    /\ lastSentContent' = inbox[1].content

\* C11 as stated: an update is skipped if its content is the last content the
\* editor itself produced (posted), and in every other case the editor
\* re-renders to the incoming content and records it.
C11_UpdateAsStated ==
    [][UpdateStep => IF inbox[1].content = LastProduced THEN UpdateSkipped
                     ELSE UpdateApplied]_vars

\* C11: an update is skipped, with no re-render and no state change, if its
\* content is lastSentContent, the content the editor last posted to the host
\* or last received from it, whichever came later; in every other case the
\* editor re-renders to the incoming content and records it as lastSentContent.
C11_Update ==
    [][UpdateStep => IF inbox[1].content = lastSentContent THEN UpdateSkipped
                     ELSE UpdateApplied]_vars

\* an update was skipped while the surface shows a local edit not yet posted
C11_SkippedOverEdit ==
    /\ Ready
    /\ Last.op = "update"
    /\ Last.before = Last.after
    /\ lastSentContent = Last.after
    /\ extractMarkdown(surface) # Last.after

\* an input event reaches handleInput while updateEditorContent holds the flag
GuardedInput ==
    /\ UpdateStep
    /\ Len(log') = Len(log) + 1
    /\ log'[Len(log')].op = "update"
    /\ log'[Len(log')].type = "input"

\* C12: while isExternalUpdate is set an input event has no effect: no edit
\* notification is scheduled or posted, and the surface and the TOC are the
\* ones of the content that updateEditorContent renders, not a second render
\* of what handleInput would extract.
C12_GuardedInputIgnored ==
    [][GuardedInput =>
           /\ timers' = timers
           /\ outbox' = outbox
           /\ surface' = markdownToStyledHtml(inbox[1].content)
           /\ toc' = updateTocFromMarkdown(inbox[1].content)]_vars

\* an input event was ignored during an update, and no edit is on its way
C12_InputDuringUpdate ==
    /\ Ready
    /\ Last.op = "update"
    /\ Last.type = "input"
    /\ timers = {}
    /\ outbox = <<>>
    /\ extractMarkdown(surface) = Last.after

----------------------------------------------------------------------------
(* The caret: it is put somewhere, the editor loses the focus and gets it back *)

CursorDocs ==
    {<<"a", "b", "c">>, <<>>, <<"#", " ", "a", NL, "b">>, <<"-", " ", "a", NL, NL, "c">>,
     FENCE \o <<NL, "x", "y", NL>> \o FENCE}

InitCursor == InitWith(CursorDocs)

Moves == {k \in DOMAIN log : log[k].op = "move"}

MayStep == Cardinality({k \in DOMAIN log : log[k].op \in {"blur", "focus", "change"}}) < MaxSteps

NextCursor ==
    \/ ReceiveInit
    \/ /\ Cardinality(Moves) < MaxMoves
       /\ \E lineIndex \in 0..(MaxLines - 1), offset \in 0..MaxText :
              MoveCursor(lineIndex, offset)
    \/ MayStep /\ Blur
    \/ MayStep /\ Focus
    \/ MayStep /\ \E content \in ExternalContents : ExternalChange(content)
    \/ ReceiveUpdate(FALSE)

SpecCursor == InitCursor /\ [][NextCursor]_vars

\* the entry before the last of the history
Previous == log[Len(log) - 1]

\* C13: saveCursorPosition counts only the text of the content region, so the
\* position stored on a blur is the caret's line and its offset in the content
\* of that line, and the focus that follows, on the same surface, puts the
\* caret back at that line and offset. (It does not: the saved offset also
\* counts the text of the gutter.)
C13_SaveRestore ==
    /\ (Ready /\ Last.op = "blur" /\ Last.lineIndex >= 0) =>
           (stored.lineIndex = Last.lineIndex /\ stored.offset = Last.from)
    /\ (Ready /\ Len(log) >= 2 /\ Last.op = "focus" /\ Previous.op = "blur"
              /\ Previous.lineIndex >= 0) =>
           (cursor.lineIndex = Previous.lineIndex /\ cursor.offset = Previous.from)

\* the focus handler runs
FocusStep == Len(log') = Len(log) + 1 /\ log'[Len(log')].op = "focus"

\* the length of the content of line lineIndex of the surface
ContentLength(lineIndex) == Len(textContent(surface[lineIndex + 1].html))

\* C14: restoreCursorPosition never fails: an offset beyond the content of
\* the target line puts the caret at the end of that content, and a line index
\* that is not below the number of rendered lines changes nothing.
C14_RestoreClamps ==
    [][(FocusStep /\ stored # NoCursor) =>
           /\ surface' = surface
           /\ IF stored.lineIndex >= Len(surface) THEN cursor' = cursor
              ELSE /\ cursor'.lineIndex = stored.lineIndex
                   /\ cursor'.offset = IF stored.offset > ContentLength(stored.lineIndex)
                                       THEN ContentLength(stored.lineIndex)
                                       ELSE stored.offset]_vars

\* the focus came back when the line of the stored position was gone
C14_LineGone ==
    /\ Ready
    /\ Last.op = "focus"
    /\ Last.lineIndex >= Len(surface)

----------------------------------------------------------------------------
(* Inline styling: one line of letters, emphasis markers and backslashes *)

\* a span of emphasis around the word a, or the word alone
EMPHASIS == {"bold-italic", "bold", "italic", "text"}

EmphasisMarker(kind) ==
    CASE kind = "bold-italic" -> <<"*", "*", "*">>
      [] kind = "bold" -> <<"*", "*">>
      [] kind = "italic" -> <<"*">>
      [] kind = "text" -> <<>>

\* the text of a line of spans with a space between them
RECURSIVE EmphasisText(_)
EmphasisText(kinds) ==
    IF kinds = <<>> THEN <<>>
    ELSE EmphasisMarker(kinds[1]) \o <<"a">> \o EmphasisMarker(kinds[1])
             \o (IF Len(kinds) > 1 THEN <<" ">> ELSE <<>>) \o EmphasisText(Tail(kinds))

\* the lines of spans that hold a bold-italic span
EmphasisLines ==
    {kinds \in SeqsUpTo(EMPHASIS, MaxSpans) : \E i \in DOMAIN kinds : kinds[i] = "bold-italic"}

InlineTexts ==
    SeqsUpTo({"a", "_", "*", "\\"}, MaxInline)
        \cup {EmphasisText(kinds) : kinds \in EmphasisLines}
        \cup {<<"f", "o", "o", "_", "b", "a", "r", "_", "b", "a", "z">>,
              <<"_", "_", "a", "_", "_">> \o <<" ", "_", "a", "_">>}

InitInline == InitWith(InlineTexts)

NextInline == ReceiveInit

SpecInline == InitInline /\ [][NextInline]_vars

\* the markup of the one line shown
Html == surface[1].html

\* where a span of emphasis with underscore markers opens in the markup
UnderscoreOpens(html) ==
    {i \in 1..(Len(html) - 2) :
        /\ html[i] \in {"<span.md-italic>", "<span.md-bold>"}
        /\ html[i + 1] = SYN
        /\ html[i + 2] = "_"}

\* where the closing markers of such a span start, and the token after them
UnderscoreCloses(html) ==
    {j \in 1..(Len(html) - 2) :
        /\ html[j] \in {"</em>", "</strong>"}
        /\ html[j + 1] = SYN
        /\ html[j + 2] = "_"}

AfterClose(html, j) == j + (IF html[j] = "</em>" THEN 5 ELSE 6)

\* C15: underscore emphasis is styled only with a non-alphanumeric character,
\* or the end of the text, on both outer sides of the markers; foo_bar_baz gets
\* no italic span. (The pattern of _italic_ only excludes another underscore.)
C15_UnderscoreBoundary ==
    Ready =>
        /\ \A i \in UnderscoreOpens(Html) : i = 1 \/ Html[i - 1] \notin ALNUM
        /\ \A j \in UnderscoreCloses(Html) :
               AfterClose(Html, j) > Len(Html) \/ Html[AfterClose(Html, j)] \notin ALNUM

\* where a span of emphasis with asterisk markers opens in the markup
AsteriskOpens(html) ==
    {i \in 1..(Len(html) - 2) :
        /\ html[i] \in {"<span.md-italic>", "<span.md-bold>", "<span.md-bold-italic>"}
        /\ html[i + 1] = SYN
        /\ html[i + 2] = "*"}

\* the number of backslashes that stand directly before character i of text
BackslashesBefore(text, i) ==
    Cardinality({k \in 1..(i - 1) : \A m \in k..(i - 1) : text[m] = "\\"})

\* the asterisks are not read as syntax, and the text is shown as it is
ShownLiterally(text) == AsteriskOpens(Html) = {} /\ textContent(Html) = text

\* C16 as stated: for every text in which each asterisk has a backslash before
\* it, there is no italic, bold or bold-italic span, and the backslashes and
\* the asterisks all appear in the extracted text.
C16_EscapedAsStated ==
    (Ready /\ \A i \in DOMAIN Shown : Shown[i] = "*" => BackslashesBefore(Shown, i) >= 1)
        => ShownLiterally(Shown)

\* C16: for every text in which each asterisk is escaped, that is, has an odd
\* number of backslashes directly before it, there is no italic, bold or
\* bold-italic span, and the backslashes and the asterisks all appear in the
\* extracted text.
C16_Escaped ==
    (Ready /\ \A i \in DOMAIN Shown : Shown[i] = "*" => BackslashesBefore(Shown, i) % 2 = 1)
        => ShownLiterally(Shown)

\* the text \*a\* is shown with its two escapes
C16_TwoEscapes ==
    /\ Ready
    /\ Shown = <<"\\", "*", "a", "\\", "*">>
    /\ Cardinality({i \in DOMAIN Html : Html[i] = "<span.md-escaped>"}) = 2
    /\ ShownLiterally(Shown)

\* the markup a span of emphasis around the word a is to have
EmphasisHtml(kind) ==
    CASE kind = "bold-italic" ->
           <<"<span.md-bold-italic>", SYN, "*", "*", "*", END, "<strong>", "<em>", "a",
             "</em>", "</strong>", SYN, "*", "*", "*", END, END>>
      [] kind = "bold" ->
           <<"<span.md-bold>", SYN, "*", "*", END, "<strong>", "a",
             "</strong>", SYN, "*", "*", END, END>>
      [] kind = "italic" ->
           <<"<span.md-italic>", SYN, "*", END, "<em>", "a", "</em>", SYN, "*", END, END>>
      [] kind = "text" -> <<"a">>

RECURSIVE EmphasisLineHtml(_)
EmphasisLineHtml(kinds) ==
    IF kinds = <<>> THEN <<>>
    ELSE EmphasisHtml(kinds[1]) \o (IF Len(kinds) > 1 THEN <<" ">> ELSE <<>>)
             \o EmphasisLineHtml(Tail(kinds))

\* C17: a ***text*** span is styled as exactly one bold-italic span, its
\* asterisks and its content matched by no later pass, also when the line
\* holds separate **bold** and *italic* spans: the markup of a line of such
\* spans is the markup of each span, one after the other.
C17_BoldItalicOnce ==
    Ready => \A kinds \in EmphasisLines :
                 Shown = EmphasisText(kinds) => Html = EmphasisLineHtml(kinds)

\* a bold-italic, a bold and an italic span on one line, each styled as itself
C17_ThreeSpans ==
    /\ Ready
    /\ Shown = EmphasisText(<<"bold-italic", "bold", "italic">>)
    /\ Html = EmphasisLineHtml(<<"bold-italic", "bold", "italic">>)
    /\ Cardinality({i \in DOMAIN Html : Html[i] = "<span.md-bold-italic>"}) = 1

----------------------------------------------------------------------------
(* Links: the click in the webview and the 'openLink' case of the host *)

HTTPS == <<"h", "t", "t", "p", "s", ":", "/", "/">>

\* how an address starts: remote, or a path of some kind
URL_PREFIXES ==
    { HTTPS, ToUpper(HTTPS), <<"h", "t", "t", "p", ":", "/", "/">>,
      <<"d", "a", "t", "a", ":">>, WEBVIEW_SCHEME,
      <<>>, <<".", "/">>, <<".", ".", "/">>, <<"/">> }

\* how it goes on
URL_NAMES == { <<"a">>, <<"a", ".", "m", "d">>, <<"a", "/", "b">> }

LinkUrls == {prefix \o name : prefix \in URL_PREFIXES, name \in URL_NAMES}

\* one line with one link
LinkDocs == {<<"[", "a", "]", "(">> \o url \o <<")">> : url \in LinkUrls}

\* the 'openLink' messages of a behaviour: those on their way and those handled
OpenLinks == {k \in DOMAIN log : log[k].op = "openLink"}

InitLink == InitWith(LinkDocs)

NextLink ==
    \/ ReceiveInit
    \/ /\ Len(outbox) + Cardinality(OpenLinks) < MaxClicks
       /\ \E i \in 1..MaxTokens : ClickLink(0, i)
    \/ HostOpenLink

SpecLink == InitLink /\ [][NextLink]_vars

\* C18: on an openLink request, an address that starts with https:// or with
\* data: is handed to the browser or the operating system as it is, with no
\* path resolution; every other address is resolved against the directory of
\* the document before it is handed off.
C18_OpenLink ==
    \A k \in OpenLinks :
        LET url == log[k].before IN
        IF StartsWith(url, HTTPS) \/ StartsWith(url, <<"d", "a", "t", "a", ":">>)
        THEN log[k].type = "openExternal(Uri.parse)" /\ log[k].after = url
        ELSE /\ log[k].type \in {"openExternal(Uri.file)", "showTextDocument(Uri.file)"}
             /\ log[k].after = pathResolve(documentDirPath, url)

----------------------------------------------------------------------------
(* The table of contents against the rendered lines *)

\* the lines of the surface that are styled as headings, in order: the level
\* of each and its text after the hashes and the whitespace
RECURSIVE RenderedHeadings(_)
RenderedHeadings(container) ==
    IF container = <<>> THEN <<>>
    ELSE LET block == container[1]
             rest == Drop(textContent(block.html), block.level)
         IN (IF block.kind = "heading"
             THEN <<[level |-> block.level, text |-> Drop(rest, Run(rest, WS))]>>
             ELSE <<>>) \o RenderedHeadings(Tail(container))

\* C19: the headings passed to the table of contents are exactly the lines the
\* renderer classifies as headings, in document order; a line that looks like
\* a heading inside a fenced code block is not among them.
C19_TocIsRenderedHeadings == Ready => toc = RenderedHeadings(surface)

----------------------------------------------------------------------------
(* The line-type menu and the other lines *)

\* C20: for every type of the menu but code, applyLineType(i, type) turns one
\* line into one line: the markdown it hands on and renders has as many lines
\* as the markdown it read, the editor shows as many line blocks, every line
\* but line i is the line it was, and the cursor is on line i. (What the
\* surface shows of another line after the render is the matter of C1: under
\* a fence that the menu removes, >a is shown as > a.)
C20_OneLineToOneLine ==
    (Applied /\ Last.type # "code") =>
        LET old == Split(Last.before)
            new == Split(Last.after)
            i == Last.lineIndex
        IN /\ Len(new) = Len(old)
           /\ Len(surface) = Len(old)
           /\ \A j \in DOMAIN old : j # i + 1 => new[j] = old[j]
           /\ cursor.lineIndex = i

\* a bullet between two lines made a rule: its text is gone, the line is not
C20_RuleInFrame ==
    /\ Applied
    /\ Last.type = "hr"
    /\ Last.before = <<"x", NL, "-", " ", "a", NL, "y">>
    /\ Last.after = <<"x", NL, "-", "-", "-", NL, "y">>
    /\ Len(surface) = 3
    /\ cursor.lineIndex = 1

----------------------------------------------------------------------------
(* One line block per line *)

\* the characters of a text that are no whitespace, in upper case
Squeezed(text) == ToUpper(SelectSeq(text, LAMBDA c : c \notin WS))

\* block k of the surface is made of line k: it shows, whitespace and case
\* aside, line k or the start of it
ShowsLine(block, line) == StartsWith(Squeezed(line), Squeezed(textContent(block.html)))

\* an empty line: a block that holds the placeholder and extracts to nothing
Placeholder(block) ==
    /\ \E t \in DOMAIN block.html : block.html[t] = "<br>"
    /\ textContent(block.html) = <<>>

\* one block per line, in order, numbered from 1, the empty lines held open
OneBlockPerLine ==
    LET lines == Split(Shown) IN
    /\ Len(surface) = Len(lines)
    /\ \A k \in DOMAIN surface :
           /\ surface[k].prefix.number = k
           /\ ShowsLine(surface[k], lines[k])
           /\ lines[k] = <<>> => Placeholder(surface[k])

IsCodeContentBlock(block) == block.cls \in {"code-content", "code-content empty-line"}

\* C21 as the specification states it: one block per line of the input, in
\* input order, with gutter number k and data-line index k-1 on the k-th
\* block, and a placeholder in the block of an empty line, which extracts
\* back to the empty string.
C21_BlocksAsStated ==
    Ready => /\ OneBlockPerLine
             /\ \A k \in DOMAIN surface : surface[k].prefix.dataLine = k - 1

\* C21, amended: as above, but the data-line index k-1 is on the type button
\* of the k-th block unless line k is inside a code block; the block of such a
\* line has a disabled button and no data-line index.
C21_Blocks ==
    Ready => /\ OneBlockPerLine
             /\ \A k \in DOMAIN surface :
                    IF IsCodeContentBlock(surface[k])
                    THEN surface[k].prefix.button = "disabled"
                    ELSE /\ surface[k].prefix.button = "enabled"
                         /\ surface[k].prefix.dataLine = k - 1

\* an empty line inside a code block, before a line of text
C21_EmptyCodeLine ==
    /\ Ready
    /\ Shown = FENCE \o <<NL, NL, "a">>
    /\ Len(surface) = 3
    /\ Placeholder(surface[2])
    /\ surface[2].prefix.number = 2
    /\ surface[2].prefix.dataLine = -1

----------------------------------------------------------------------------
(* The Enter, Backspace and Delete keys *)

KeyDocs ==
    { <<"a", "b", "c">>, <<"a", NL, "b", "c", "d">>, <<"a", NL, NL, "b">>,
      <<"a", "b", NL, "#", " ", "a">>, FENCE \o <<NL, "x", "y">> }

Keys == {k \in DOMAIN log : log[k].op \in {"enter", "backspace", "delete"}}

InitKeys == InitWith(KeyDocs)

\* the caret is put somewhere, then keys are pressed
NextKeys ==
    \/ ReceiveInit
    \/ /\ Len(log) = 1
       /\ \E lineIndex \in 0..(MaxLines - 1), offset \in 0..MaxKeyOffset :
              MoveCursor(lineIndex, offset)
    \/ Cardinality(Keys) < MaxKeys /\ PressEnter
    \/ Cardinality(Keys) < MaxKeys /\ PressBackspace
    \/ Cardinality(Keys) < MaxKeys /\ PressDelete

SpecKeys == InitKeys /\ [][NextKeys]_vars

\* Enter was the last key, pressed with the caret in a line
Entered == Ready /\ Last.op = "enter" /\ Last.type = "split"

\* C22: Enter with the cursor at (line i, offset k) puts the two lines
\* line[0..k) and line[k..] in the place of line i, leaves the other lines as
\* they are and in order, schedules an edit notification with the new
\* document, and puts the cursor at (i+1, 0).
C22_EnterSplits ==
    Entered =>
        LET old == Split(Last.before)
            i == Last.lineIndex
            k == Last.from
        IN /\ Split(Last.after) =
                  Take(old, i) \o <<Take(old[i + 1], k), Drop(old[i + 1], k)>>
                      \o Drop(old, i + 1)
           /\ timers = {[deadline |-> Last.at + EDIT_DEBOUNCE_MS, markdown |-> Last.after]}
           /\ cursor.lineIndex = i + 1 /\ cursor.offset = 0

\* C23: Backspace with the cursor at the start of line i > 0 puts the
\* concatenation of lines i-1 and i in their place, leaves the other lines as
\* they are, and puts the cursor at (i-1, length of the old line i-1); with
\* the cursor at the start of line 0, or not at the start of a line, the
\* handler changes no line and schedules no edit.
C23_BackspaceMerges ==
    (Ready /\ Last.op = "backspace") =>
        LET old == Split(Last.before)
            i == Last.lineIndex
        IN IF Last.from = 0 /\ i > 0
           THEN /\ Split(Last.after) =
                       Take(old, i - 1) \o <<old[i] \o old[i + 1]>> \o Drop(old, i + 1)
                /\ cursor.lineIndex = i - 1 /\ cursor.offset = Len(old[i])
           ELSE /\ Last.after = Last.before
                /\ extractMarkdown(surface) = Last.before
                /\ Cardinality(Keys) = 1 => timers = {}

\* C30: Enter and then Backspace, with the cursor where Enter left it, give
\* the document there was before, with the cursor at the line and offset it
\* had before Enter.
C30_EnterBackspace ==
    (Ready /\ Len(log) >= 2 /\ Last.op = "backspace" /\ Previous.op = "enter"
           /\ Previous.type = "split") =>
        /\ extractMarkdown(surface) = Previous.before
        /\ cursor.lineIndex = Previous.lineIndex
        /\ cursor.offset = Previous.from

----------------------------------------------------------------------------
(* The host and its own edits: two edits of the webview on their way *)

InitEcho == InitWith(SyncDocs)

NextEcho ==
    \/ ReceiveInit
    \/ ReceiveUpdate(FALSE)
    \/ Ready /\ Cardinality(Edits) < MaxTyped /\ TypeChar("a")
    \/ TimerFire
    \/ Tick(EDIT_DEBOUNCE_MS, MaxEchoWait)
    \/ Cardinality(Changes) < MaxChanges /\ \E content \in ExternalContents :
                                                ExternalChange(content)
    \/ HostReceiveEdit
    \/ HostApplyEdit
    \/ HostEditDone

SpecEcho == InitEcho /\ [][NextEcho]_vars

\* the workspace applies an edit that the 'edit' handler asked for
EditApplied ==
    /\ Len(applying') = Len(applying)
    /\ \E k \in DOMAIN applying : ~applying[k].applied /\ applying'[k].applied

\* the host posts an 'update' message
UpdateSent == Len(inbox') = Len(inbox) + 1 /\ inbox'[Len(inbox')].type = "update"

\* C24: the host sends no 'update' message for a change of the document that
\* comes from applying an 'edit' message of the webview, however the edit
\* messages, their application and the change events interleave; and an
\* 'update' is only sent for a change to a content other than the last one
\* sent to or received from the webview.
C24_NoEcho ==
    [][/\ EditApplied => ~UpdateSent
       /\ UpdateSent => inbox'[Len(inbox')].content # lastKnownContent]_vars

\* entry k of the history is an 'update' message that the webview rendered
IsAppliedUpdate(k) == log[k].op = "update" /\ log[k].before # log[k].after

\* C25: once the webview has applied an external update, it posts no 'edit'
\* message whose content was computed before the update: the debounced edit
\* that is pending when the update arrives is not delivered afterwards. Every
\* post follows the edit it carries with no applied update in between.
C25_NoStaleEdit ==
    \A j, p \in DOMAIN log :
        (IsPost(p) /\ LastEditBefore(j, p)) =>
            \A u \in (j + 1)..(p - 1) : ~IsAppliedUpdate(u)

\* no timer is pending, no message is on its way, no edit is being applied
Quiet ==
    /\ Ready
    /\ timers = {}
    /\ inbox = <<>> /\ outbox = <<>>
    /\ applying = <<>> /\ ~isApplyingEdit

\* C26: the editor and the document converge: after any local edits and
\* external changes, once no debounce timer is pending, no message is on its
\* way and the host is applying no edit, the text of the document is the
\* markdown the editor shows.
C26_Converged == Quiet => document = extractMarkdown(surface)

----------------------------------------------------------------------------
(* The guard isExternalUpdate and the handlers that set it *)

GuardDocs == { <<"a", "b">>, <<"a", NL, "b">> }

PastedTexts == { <<>>, <<"x">>, <<"x", NL, "y">> }

MayRun == Ready /\ Len(log) <= MaxGuardOps

InitGuard == InitWith(GuardDocs)

NextGuard ==
    \/ ReceiveInit
    \/ MayRun /\ TypeChar("a")
    \/ MayRun /\ \E type \in {"h1", "code"} : ApplyLineType(0, type)
    \/ MayRun /\ ApplyInlineFormat("bold", 0, 0, 1)
    \/ MayRun /\ PressEnter
    \/ MayRun /\ PressBackspace
    \/ MayRun /\ PressDelete
    \/ MayRun /\ \E text \in PastedTexts : Paste(text)
    \/ MayRun /\ \E content \in ExternalContents : ExternalChange(content)
    \/ \E fired \in BOOLEAN : ReceiveUpdate(fired)

SpecGuard == InitGuard /\ [][NextGuard]_vars

----------------------------------------------------------------------------
(* The gutter icon of a line and the way the line is drawn *)

\* list, task and ordered lines behind one or two spaces
IndentedLines ==
    {sp \o h \o t : sp \in {<<" ">>, <<" ", " ">>},
                    h \in {<<"-", " ">>, <<"*", " ">>, <<"1", ".", " ">>,
                           <<"-", " ", "[", " ", "]", " ">>},
                    t \in {<<>>, <<"a">>}}

KindLines == TypedLines \cup IndentedLines

InitKinds == InitWith(KindLines)

NextKinds == ReceiveInit

SpecKinds == InitKinds /\ [][NextKinds]_vars

\* the line type whose styling a block shows: the class of the block for an
\* alert header, else the branch styleLine took
RenderedType(block) ==
    IF block.cls = "md-alert" THEN "alert"
    ELSE IF block.kind = "heading" THEN HeadingType(block.level)
    ELSE IF block.kind \in {"hr", "task", "ul", "ol", "quote", "alert"} THEN block.kind
    ELSE "paragraph"

\* a document of one line that is no fence line has been drawn
OneLineDrawn == Ready /\ Len(surface) = 1 /\ ~IsFence(Shown)

\* C28: for a line outside a code fence, the type getLineType gives it (the
\* icon in the gutter, the entry marked in the menu) is the kind of line
\* styleLine draws: a heading of the same level, a rule, a task, a bullet, an
\* ordered item, an alert, a quote or a paragraph; indented list lines, rules
\* with trailing spaces and alert markers followed by text included.
C28_SameKind == OneLineDrawn => surface[1].prefix.icon = RenderedType(surface[1])

\* an indented bullet line has been drawn
C28_IndentedBullet ==
    /\ OneLineDrawn
    /\ Shown = <<" ", "-", " ", "a">>
    /\ RenderedType(surface[1]) = "ul"
    /\ surface[1].prefix.icon = "paragraph"

\* an alert marker with text after it has been drawn
C28_AlertWithText ==
    /\ OneLineDrawn
    /\ Shown = <<GT, " ", "[", "!", "N", "O", "T", "E", "]", "a">>
    /\ RenderedType(surface[1]) = "quote"
    /\ surface[1].prefix.icon = "alert"

\* a rule with spaces after it has been drawn as a rule, with the icon of one
C28_RuleWithSpace ==
    /\ OneLineDrawn
    /\ Shown = <<"-", "-", "-", " ">>
    /\ RenderedType(surface[1]) = "hr"
    /\ surface[1].prefix.icon = "hr"

----------------------------------------------------------------------------
(* Inline formats: a format toggled on a line that has markers already *)

\* lines whose markers stand in pairs around one word
MarkedLines ==
    { <<"a">>, <<"a", "a">>,
      <<"*", "a", "*">>,
      <<"*", "*", "a", "*", "*">>,
      <<"*", "*", "*", "a", "*", "*", "*">>,
      <<"~", "~", "a", "~", "~">>,
      <<TICK, "a", TICK>>,
      <<"a", " ", "*", "*", "a", "*", "*">>,
      <<"~", "~", "*", "*", "a", "*", "*", "~", "~">> }

InitMarks == InitWith(MarkedLines)

\* one format is toggled on one selection of the line
NextMarks ==
    \/ ReceiveInit
    \/ /\ Edits = {}
       /\ \E format \in MARKED_FORMATS, from, to \in Offsets :
              ApplyInlineFormat(format, 0, from, to)

SpecMarks == InitMarks /\ [][NextMarks]_vars

\* how many of the character c stand in a row at position p of the line
RunLength(line, p, c) ==
    Cardinality({q \in DOMAIN line :
                    \A k \in (IF q < p THEN q ELSE p)..(IF q < p THEN p ELSE q) :
                        line[k] = c})

\* the marker of the format stands at position p of the line and is the
\* format's own: two asterisks in a row are the marker of bold
\* (/\*\*(.+?)\*\*/ of styleInline), neither of them is a marker of italic
OwnMarker(format, line, p) ==
    /\ LitAt(line, p, FormatPrefix(format))
    /\ format = "italic" => RunLength(line, p, "*") # 2

\* the line without the markers of the format that stand at p and at q
Unmarked(format, line, p, q) ==
    LET size == Len(FormatPrefix(format))
    IN Take(line, p - 1) \o SubSeq(line, p + size, q - 1) \o Drop(line, q + size - 1)

\* C29: applyInlineFormat of bold, italic, code or strikethrough changes only
\* markers of that format: the line it leaves is the line with the format's
\* markers put around the selection, or the line with one pair of the
\* format's own markers taken out; no character of the marker of another
\* format is taken (italic on the word of a bold word leaves the asterisks of
\* bold alone).
C29_OwnMarkers ==
    (Ready /\ Last.op = "applyInlineFormat" /\ Last.type \in MARKED_FORMATS) =>
        \/ Last.after = Wrapped(Last.type, Last.before, Last.from, Last.to)
        \/ \E p, q \in DOMAIN Last.before :
               /\ p + Len(FormatPrefix(Last.type)) <= q
               /\ OwnMarker(Last.type, Last.before, p)
               /\ OwnMarker(Last.type, Last.before, q)
               /\ Last.after = Unmarked(Last.type, Last.before, p, q)

\* italic toggled on the word of a bold word has taken one asterisk from each
\* marker of bold
C29_ItalicInBold ==
    /\ Ready
    /\ Last.op = "applyInlineFormat" /\ Last.type = "italic"
    /\ Last.before = <<"*", "*", "a", "*", "*">>
    /\ Last.from = 2 /\ Last.to = 3
    /\ Last.after = <<"*", "a", "*">>

\* bold toggled on the word of a bold word has taken the markers of bold
C29_BoldOff ==
    /\ Ready
    /\ Last.op = "applyInlineFormat" /\ Last.type = "bold"
    /\ Last.before = <<"*", "*", "a", "*", "*">>
    /\ Last.from = 2 /\ Last.to = 3
    /\ Last.after = <<"a">>

====
